---- MODULE Spec2Model ----
(***************************************************************************)
(* The vSphere provider of eks-anywhere (pkg/providers/vsphere/vsphere.go):*)
(* the template-regeneration decisions (Spec Differ), the generation of    *)
(* Cluster API specs for an upgrade and the validation of a new spec       *)
(* against the live cluster.                                               *)
(*                                                                         *)
(* Every provider operation is one action.  An operation starts when the   *)
(* provider is idle, runs to completion and leaves its inputs, its result  *)
(* and the ordered log of the client calls, name mints and renders it made *)
(* in the variable op; Return hands the result to the caller.              *)
(***************************************************************************)
EXTENDS Integers, Sequences, FiniteSets, TLC

VARIABLES
    annotated,  \* the live EtcdadmCluster carries upgrade-in-progress = "true"
    now,        \* the clock read by p.templateBuilder.now
    op          \* the operation that ran last: its inputs, log and result

vars == <<annotated, now, op>>

----------------------------------------------------------------------------
(* Bounds of the model *)

\* how many fields of the base input one operation's input may differ in
MaxEdits == 2
\* the last tick of the clock
MaxTime == 2

----------------------------------------------------------------------------
(* Data: specs, datacenter and machine configs, the live cluster *)

NoEtcd == "nil"
ClusterName == "c"

MachineConfig(name, cpus) ==
    [Name |-> name, NumCPUs |-> cpus, MemoryMiB |-> 8, DiskGiB |-> 25,
     Datastore |-> 0, Folder |-> 0, ResourcePool |-> 0, Template |-> 0,
     StoragePolicyName |-> 0, OSFamily |-> 0, Users |-> <<1>>,
     Annotations |-> {}]

DatacenterConfig ==
    [Name |-> "dc", Server |-> 10, Datacenter |-> 20, Network |-> 30,
     Thumbprint |-> 40]

WorkerNodeGroup(name, ref) ==
    [Name |-> name, MachineGroupRef |-> ref, Taints |-> << >>, Labels |-> {}]

\* The spec the cluster was created from: it is the caller's currentSpec and
\* it is what the live cluster stores.
BaseSpec ==
    [Name |-> ClusterName,
     KubernetesVersion |-> 123,
     BundleNumber |-> 1,
     EndpointHost |-> 1,
     VSphereVersion |-> 1,
     DriverImageDigest |-> 1,
     SyncerImageDigest |-> 1,
     ManagerImageDigest |-> 1,
     KubeVipImageDigest |-> 1,
     ControlPlaneRef |-> "cp-mc",
     EtcdRef |-> "etcd-mc",
     WorkerNodeGroupConfigurations |->
         <<WorkerNodeGroup("md-0", "w0-mc"), WorkerNodeGroup("md-1", "w1-mc")>>,
     VSphereDatacenter |-> DatacenterConfig,
     VSphereMachineConfigs |->
         [n \in {"cp-mc", "etcd-mc", "w0-mc", "w1-mc"} |->
             MachineConfig(n, IF n = "w1-mc" THEN 4 ELSE 2)]]

\* The environment values VSPHERE_USERNAME / VSPHERE_PASSWORD.
BaseEnv == [Username |-> 1, Password |-> 1]

\* The general service account (EKSA_VSPHERE_USERNAME).
User == "u"

\* What a setup-and-validate call finds around it: whether the cluster is
\* managed by another cluster, the VSphereMachineConfig and
\* VSphereDatacenterConfig resources of the target namespace other than the
\* live cluster's own, p.skipIPCheck, the control plane and CSI service
\* accounts, and the accounts that lack privileges; and, for an upgrade, the
\* Cluster API resources of the live cluster that do not exist.
BaseSetup ==
    [managed |-> FALSE, existing |-> {}, skipIPCheck |-> FALSE,
     cpUser |-> "", csiUser |-> "", unprivileged |-> {}, missing |-> {}]

BaseInput == [spec |-> BaseSpec, env |-> BaseEnv, setup |-> BaseSetup]

\* The live cluster, as the cluster-state client returns it.
LiveCluster == BaseSpec
LiveDatacenter == BaseSpec.VSphereDatacenter
LiveMachineConfigs == BaseSpec.VSphereMachineConfigs
LiveSecret == [username |-> 1, password |-> 1]

\* A template name: what it is for and the generation it was minted in.
TemplateName(kind, group, gen) == [kind |-> kind, group |-> group, gen |-> gen]
NoName == TemplateName("", "", 0)

\* The template names recorded in the live Cluster API resources (generation 0).
LiveKubeadmControlPlane ==
    [InfrastructureRef |-> TemplateName("cp", "", 0)]
LiveEtcdadmCluster ==
    [InfrastructureTemplate |-> TemplateName("etcd", "", 0)]
LiveMachineDeployments ==
    [g \in {"md-0", "md-1"} |->
        [InfrastructureRef |-> TemplateName("worker", g, 0),
         BootstrapConfigRef |-> TemplateName("kubeadmconfig", g, 0)]]

----------------------------------------------------------------------------
(* Inputs: the base input changed in at most MaxEdits places *)

MachineFields ==
    {"NumCPUs", "MemoryMiB", "DiskGiB", "Datastore", "Folder", "ResourcePool",
     "Template", "StoragePolicyName", "OSFamily", "Users", "Annotations"}
DatacenterFields == {"Server", "Datacenter", "Network", "Thumbprint"}
ScalarFields == {"KubernetesVersion", "BundleNumber", "EndpointHost"}

\* another value of a field
Other(f, v) ==
    CASE f \in {"Labels", "Annotations"} -> v \cup {<<"k", 1>>}
      [] f \in {"Taints", "Users"} -> Append(v, 7)
      [] OTHER -> v + 1

EditGroup(s, name, field) ==
    [s EXCEPT !.WorkerNodeGroupConfigurations =
        [i \in 1..Len(@) |->
            IF @[i].Name = name
            THEN [@[i] EXCEPT ![field] = Other(field, @)]
            ELSE @[i]]]

SetGroupRef(s, name, ref) ==
    [s EXCEPT !.WorkerNodeGroupConfigurations =
        [i \in 1..Len(@) |->
            IF @[i].Name = name
            THEN [@[i] EXCEPT !.MachineGroupRef = ref]
            ELSE @[i]]]

RemoveGroup(s, name) ==
    [s EXCEPT !.WorkerNodeGroupConfigurations =
        SelectSeq(@, LAMBDA g : g.Name # name)]

ApplyEdit(in, e) ==
    LET s == in.spec IN
    CASE e.k = "scalar" -> [in EXCEPT !.spec[e.f] = Other(e.f, @)]
      [] e.k = "dc" -> [in EXCEPT !.spec.VSphereDatacenter[e.f] = Other(e.f, @)]
      [] e.k = "mc" ->
            IF e.mc \in DOMAIN s.VSphereMachineConfigs
            THEN [in EXCEPT !.spec.VSphereMachineConfigs[e.mc][e.f] = Other(e.f, @)]
            ELSE in
      [] e.k = "group" -> [in EXCEPT !.spec = EditGroup(s, e.g, e.f)]
      [] e.k = "ref" -> [in EXCEPT !.spec = SetGroupRef(s, e.g, e.mc)]
      [] e.k = "addGroup" ->
            [in EXCEPT !.spec.WorkerNodeGroupConfigurations =
                Append(@, WorkerNodeGroup(e.g, e.mc))]
      [] e.k = "removeGroup" -> [in EXCEPT !.spec = RemoveGroup(s, e.g)]
      [] e.k = "noEtcd" -> [in EXCEPT !.spec.EtcdRef = NoEtcd]
      [] e.k = "newMC" ->
            [in EXCEPT !.spec =
                SetGroupRef(
                    [s EXCEPT !.VSphereMachineConfigs =
                        [n \in DOMAIN @ \cup {e.mc} |->
                            IF n = e.mc
                            THEN [MachineConfig(e.mc, 8) EXCEPT !.StoragePolicyName = 5]
                            ELSE @[n]]],
                    e.g, e.mc)]
      [] e.k = "dropMC" ->
            [in EXCEPT !.spec.VSphereMachineConfigs =
                [n \in DOMAIN @ \ {e.mc} |-> @[n]]]
      [] e.k = "env" -> [in EXCEPT !.env[e.f] = Other(e.f, @)]
      [] e.k = "cpRef" -> [in EXCEPT !.spec.ControlPlaneRef = e.mc]
      [] e.k = "etcdRef" -> [in EXCEPT !.spec.EtcdRef = e.mc]
      [] e.k = "managed" -> [in EXCEPT !.setup.managed = TRUE]
      [] e.k = "skipIPCheck" -> [in EXCEPT !.setup.skipIPCheck = TRUE]
      [] e.k = "exists" -> [in EXCEPT !.setup.existing = @ \cup {e.mc}]
      [] e.k = "cpUser" -> [in EXCEPT !.setup.cpUser = e.mc]
      [] e.k = "csiUser" -> [in EXCEPT !.setup.csiUser = e.mc]
      [] e.k = "unprivileged" -> [in EXCEPT !.setup.unprivileged = @ \cup {e.mc}]
      [] e.k = "missing" -> [in EXCEPT !.setup.missing = @ \cup {e.g}]
      [] OTHER -> in

RECURSIVE ApplyEdits(_, _, _)
\* the edits of `chosen` (indices into `edits`) applied in the order of `edits`
ApplyEdits(in, edits, chosen) ==
    IF chosen = {} THEN in
    ELSE LET i == CHOOSE x \in chosen : \A y \in chosen : x <= y
         IN ApplyEdits(ApplyEdit(in, edits[i]), edits, chosen \ {i})

RECURSIVE UpTo(_, _)
\* the subsets of S with at most n elements
UpTo(S, n) ==
    IF n = 0 THEN {{}}
    ELSE LET T == UpTo(S, n - 1) IN T \cup {t \cup {x} : t \in T, x \in S}

Inputs(edits) ==
    {ApplyEdits(BaseInput, edits, c) : c \in UpTo(1..Len(edits), MaxEdits)}

RECURSIVE SetToSeq(_)
SetToSeq(S) ==
    IF S = {} THEN << >>
    ELSE LET x == CHOOSE y \in S : TRUE IN <<x>> \o SetToSeq(S \ {x})

E(k, f, g, mc) == [k |-> k, f |-> f, g |-> g, mc |-> mc]

\* the inputs of the pure decision functions: every field they may read
DifferEdits ==
    SetToSeq({E("scalar", f, "", "") : f \in ScalarFields}
        \cup {E("dc", f, "", "") : f \in DatacenterFields}
        \cup {E("mc", f, "", "w0-mc") : f \in MachineFields}
        \cup {E("group", f, g, "") : f \in {"Taints", "Labels"},
                                     g \in {"md-0", "md-1"}})

----------------------------------------------------------------------------
(* Spec Differ: the pure decision functions *)

\* v1alpha1.TaintsSliceEqual, v1alpha1.MapEqual, v1alpha1.UsersSliceEqual
TaintsSliceEqual(a, b) == a = b
MapEqual(a, b) == a = b
UsersSliceEqual(a, b) == a = b

\* cluster.BuildMapForWorkerNodeGroupsByName
BuildMapForWorkerNodeGroupsByName(groups) ==
    [n \in {groups[i].Name : i \in 1..Len(groups)} |->
        groups[CHOOSE i \in 1..Len(groups) :
            /\ groups[i].Name = n
            /\ \A j \in 1..Len(groups) : groups[j].Name = n => j <= i]]

\* v1alpha1.WorkerNodeGroupConfigurationSliceTaintsEqual: the taints of the
\* node groups that are in both lists, compared by name
WorkerNodeGroupConfigurationSliceTaintsEqual(a, b) ==
    LET m == BuildMapForWorkerNodeGroupsByName(a) IN
    \A i \in 1..Len(b) :
        b[i].Name \in DOMAIN m => TaintsSliceEqual(m[b[i].Name].Taints, b[i].Taints)

\* v1alpha1.WorkerNodeGroupConfigurationsLabelsMapEqual
WorkerNodeGroupConfigurationsLabelsMapEqual(a, b) ==
    LET m == BuildMapForWorkerNodeGroupsByName(a) IN
    \A i \in 1..Len(b) :
        b[i].Name \in DOMAIN m => MapEqual(m[b[i].Name].Labels, b[i].Labels)

\* the disk size is not compared
AnyImmutableFieldChangedButDisk(oldVdc, newVdc, oldVmc, newVmc) ==
    \/ oldVmc.NumCPUs # newVmc.NumCPUs
    \/ oldVmc.MemoryMiB # newVmc.MemoryMiB
    \/ oldVmc.Datastore # newVmc.Datastore
    \/ oldVmc.Folder # newVmc.Folder
    \/ oldVdc.Network # newVdc.Network
    \/ oldVmc.ResourcePool # newVmc.ResourcePool
    \/ oldVdc.Thumbprint # newVdc.Thumbprint
    \/ oldVmc.Template # newVmc.Template

AnyImmutableFieldChanged(oldVdc, newVdc, oldVmc, newVmc) ==
    \/ oldVmc.NumCPUs # newVmc.NumCPUs
    \/ oldVmc.MemoryMiB # newVmc.MemoryMiB
    \/ oldVmc.DiskGiB # newVmc.DiskGiB
    \/ oldVmc.Datastore # newVmc.Datastore
    \/ oldVmc.Folder # newVmc.Folder
    \/ oldVdc.Network # newVdc.Network
    \/ oldVmc.ResourcePool # newVmc.ResourcePool
    \/ oldVdc.Thumbprint # newVdc.Thumbprint
    \/ oldVmc.Template # newVmc.Template

\* the users of the machine config are compared as well
NeedsNewControlPlaneTemplateOrUsers(oldSpec, newSpec, oldVdc, newVdc, oldVmc, newVmc) ==
    \/ oldSpec.KubernetesVersion # newSpec.KubernetesVersion
    \/ oldSpec.EndpointHost # newSpec.EndpointHost
    \/ oldSpec.BundleNumber # newSpec.BundleNumber
    \/ AnyImmutableFieldChanged(oldVdc, newVdc, oldVmc, newVmc)
    \/ oldVmc.Users # newVmc.Users

NeedsNewControlPlaneTemplate(oldSpec, newSpec, oldVdc, newVdc, oldVmc, newVmc) ==
    \/ oldSpec.KubernetesVersion # newSpec.KubernetesVersion
    \/ oldSpec.EndpointHost # newSpec.EndpointHost
    \/ oldSpec.BundleNumber # newSpec.BundleNumber
    \/ AnyImmutableFieldChanged(oldVdc, newVdc, oldVmc, newVmc)

NeedsNewWorkloadTemplate(oldSpec, newSpec, oldVdc, newVdc, oldVmc, newVmc) ==
    \/ oldSpec.KubernetesVersion # newSpec.KubernetesVersion
    \/ oldSpec.BundleNumber # newSpec.BundleNumber
    \/ ~WorkerNodeGroupConfigurationSliceTaintsEqual(
            oldSpec.WorkerNodeGroupConfigurations,
            newSpec.WorkerNodeGroupConfigurations)
    \/ ~WorkerNodeGroupConfigurationsLabelsMapEqual(
            oldSpec.WorkerNodeGroupConfigurations,
            newSpec.WorkerNodeGroupConfigurations)
    \/ AnyImmutableFieldChanged(oldVdc, newVdc, oldVmc, newVmc)

\* the users of the machine configs are not compared
NeedsNewKubeadmConfigTemplateNoUsers(newWorkerNodeGroup, oldWorkerNodeGroup, oldWorkerNodeVmc, newWorkerNodeVmc) ==
    \/ ~TaintsSliceEqual(newWorkerNodeGroup.Taints, oldWorkerNodeGroup.Taints)
    \/ ~MapEqual(newWorkerNodeGroup.Labels, oldWorkerNodeGroup.Labels)

NeedsNewKubeadmConfigTemplate(newWorkerNodeGroup, oldWorkerNodeGroup, oldWorkerNodeVmc, newWorkerNodeVmc) ==
    \/ ~TaintsSliceEqual(newWorkerNodeGroup.Taints, oldWorkerNodeGroup.Taints)
    \/ ~MapEqual(newWorkerNodeGroup.Labels, oldWorkerNodeGroup.Labels)
    \/ ~UsersSliceEqual(oldWorkerNodeVmc.Users, newWorkerNodeVmc.Users)

\* the bundle number is not compared
NeedsNewEtcdTemplateNoBundle(oldSpec, newSpec, oldVdc, newVdc, oldVmc, newVmc) ==
    \/ oldSpec.KubernetesVersion # newSpec.KubernetesVersion
    \/ AnyImmutableFieldChanged(oldVdc, newVdc, oldVmc, newVmc)

NeedsNewEtcdTemplate(oldSpec, newSpec, oldVdc, newVdc, oldVmc, newVmc) ==
    \/ oldSpec.KubernetesVersion # newSpec.KubernetesVersion
    \/ oldSpec.BundleNumber # newSpec.BundleNumber
    \/ AnyImmutableFieldChanged(oldVdc, newVdc, oldVmc, newVmc)

----------------------------------------------------------------------------
(* The steps an operation takes: client calls, name mints, renders *)

Err(msg, prev, new) == [msg |-> msg, prev |-> prev, new |-> new]
NoErr == Err("nil", 0, 0)

\* a nil *VSphereMachineConfig
Nil == [Name |-> "nil"]
Lookup(m, k) == IF k \in DOMAIN m THEN m[k] ELSE Nil

\* The goroutine panics: a nil *VSphereMachineConfig is dereferenced.  The
\* decision functions return at the first comparison that differs and read
\* the machine configs after the comparisons of the specs (lines 513, 499):
\* returnsBefore is what the function returns for two equal machine configs
\* and datacenter configs, TRUE exactly when it returns before it reads them.
Panic == Err("panic: nil pointer dereference", 0, 0)
AnyMachineConfig == MachineConfig("", 0)
NilDereferenced(returnsBefore, oldVmc, newVmc) ==
    (oldVmc = Nil \/ newVmc = Nil) /\ ~returnsBefore

Ev(ev, what, arg, ok) == [ev |-> ev, what |-> what, arg |-> arg, ok |-> ok]

\* A fallible step, logged: it fails when it is the failAt-th of the
\* operation (a transport or render error; failAt = 0: none fails) or when
\* the resource it reads is not in the live cluster.
Step(ctx, ev, what, arg, found) ==
    LET k == ctx.n + 1
        ok == k # ctx.failAt /\ found
    IN [ctx EXCEPT !.n = k,
                   !.calls = Append(@, Ev(ev, what, arg, ok)),
                   !.err = IF ok THEN @ ELSE Err(what, 0, 0)]

\* common.*TemplateName(clusterName, ..., now): a fresh name of this instant
Mint(ctx, kind, group) ==
    [ctx EXCEPT !.calls = Append(@, Ev("mint", kind, group, TRUE))]

machineDeploymentName(clusterName, nodeGroupName) == <<clusterName, nodeGroupName>>

\* Evaluate v, then F on its value.
Bind(v, F(_)) == CHOOSE r \in {F(x) : x \in {v}} : TRUE

\* Go's "if err != nil { return ... }": F continues the operation from the
\* context c unless c carries an error.
Then(c, F(_)) == Bind(c, LAMBDA x : IF x.err # NoErr THEN x ELSE F(x))

EmptyMap == [g \in {} |-> NoName]
Put(m, k, v) == [x \in DOMAIN m \cup {k} |-> IF x = k THEN v ELSE m[x]]

NilBytes == [kind |-> "nil"]

Ctx0(failAt, t) ==
    [failAt |-> failAt, t |-> t, n |-> 0, calls |-> << >>, err |-> NoErr,
     result |-> FALSE,
     wroteAnnotation |-> FALSE,
     missing |-> {},
     old |-> Nil, new |-> Nil,
     needsNewControlPlaneTemplate |-> FALSE,
     needsNewEtcdTemplate |-> FALSE,
     needsNewWorkloadTemplate |-> [g \in {} |-> FALSE],
     needsNewKubeadmConfigTemplate |-> [g \in {} |-> FALSE],
     controlPlaneTemplateName |-> NoName,
     etcdTemplateName |-> NoName,
     workloadTemplateNames |-> EmptyMap,
     kubeadmconfigTemplateNames |-> EmptyMap,
     controlPlaneSpec |-> NilBytes,
     workersSpec |-> NilBytes]

----------------------------------------------------------------------------
(* generateCAPISpecForUpgrade *)

\* lines 548-570: the live cluster, datacenter and control plane machine
\* config are read, then the control plane template name is kept or minted
controlPlaneTemplate(ctx, currentSpec, newClusterSpec) ==
    Then(Step(ctx, "call", "GetEksaCluster", newClusterSpec.Name, TRUE), LAMBDA c1 :
    Then(Step(c1, "call", "GetEksaVSphereDatacenterConfig",
              newClusterSpec.VSphereDatacenter.Name, TRUE), LAMBDA c2 :
    Then(Step(c2, "call", "GetEksaVSphereMachineConfig", LiveCluster.ControlPlaneRef,
              LiveCluster.ControlPlaneRef \in DOMAIN LiveMachineConfigs), LAMBDA c3 :
        LET c == LiveCluster
            vdc == LiveDatacenter
            controlPlaneMachineConfig ==
                Lookup(newClusterSpec.VSphereMachineConfigs,
                       newClusterSpec.ControlPlaneRef)
            controlPlaneVmc == LiveMachineConfigs[c.ControlPlaneRef]
            needs == NeedsNewControlPlaneTemplate(currentSpec, newClusterSpec, vdc,
                         newClusterSpec.VSphereDatacenter, controlPlaneVmc,
                         controlPlaneMachineConfig)
            c4 == [c3 EXCEPT !.needsNewControlPlaneTemplate = needs]
        IN
        IF NilDereferenced(
               NeedsNewControlPlaneTemplate(currentSpec, newClusterSpec, vdc, vdc,
                   AnyMachineConfig, AnyMachineConfig),
               controlPlaneVmc, controlPlaneMachineConfig)
        THEN [c3 EXCEPT !.err = Panic]
        ELSE
        IF ~needs
        THEN Then(Step(c4, "call", "GetKubeadmControlPlane", c.Name,
                       "KubeadmControlPlane" \notin c4.missing), LAMBDA c5 :
                 [c5 EXCEPT !.controlPlaneTemplateName =
                                LiveKubeadmControlPlane.InfrastructureRef])
        ELSE [Mint(c4, "cp", "") EXCEPT !.controlPlaneTemplateName =
                                            TemplateName("cp", "", c4.t)])))

\* the context after the read, with the two machine configs in old and new
getWorkerNodeMachineConfigs(ctx, newClusterSpec, workerNodeGroupConfiguration, prevWorkerNodeGroupConfigs) ==
    IF workerNodeGroupConfiguration.Name \in DOMAIN prevWorkerNodeGroupConfigs
    THEN LET ref == workerNodeGroupConfiguration.MachineGroupRef
             oldWorkerMachineConfig == Lookup(newClusterSpec.VSphereMachineConfigs, ref)
         IN Bind(Step(ctx, "call", "GetEksaVSphereMachineConfig", ref,
                      ref \in DOMAIN LiveMachineConfigs), LAMBDA c1 :
                IF c1.err # NoErr
                THEN [c1 EXCEPT !.old = oldWorkerMachineConfig, !.new = Nil]
                ELSE [c1 EXCEPT !.old = oldWorkerMachineConfig,
                                !.new = LiveMachineConfigs[ref]])
    ELSE [ctx EXCEPT !.old = Nil, !.new = Nil]

needsNewMachineTemplate(currentSpec, newClusterSpec, workerNodeGroupConfiguration, vdc, prevWorkerNodeGroupConfigs, oldWorkerMachineConfig, newWorkerMachineConfig) ==
    IF workerNodeGroupConfiguration.Name \in DOMAIN prevWorkerNodeGroupConfigs
    THEN NeedsNewWorkloadTemplate(currentSpec, newClusterSpec, vdc,
             newClusterSpec.VSphereDatacenter, oldWorkerMachineConfig,
             newWorkerMachineConfig)
    ELSE TRUE

\* a group the previous spec does not have is taken to need nothing new
needsNewKubeadmConfigTemplateOnlyIfKnown(workerNodeGroupConfiguration, prevWorkerNodeGroupConfigs, oldWorkerNodeVmc, newWorkerNodeVmc) ==
    IF workerNodeGroupConfiguration.Name \in DOMAIN prevWorkerNodeGroupConfigs
    THEN NeedsNewKubeadmConfigTemplate(workerNodeGroupConfiguration,
             prevWorkerNodeGroupConfigs[workerNodeGroupConfiguration.Name],
             oldWorkerNodeVmc, newWorkerNodeVmc)
    ELSE FALSE

needsNewKubeadmConfigTemplate(workerNodeGroupConfiguration, prevWorkerNodeGroupConfigs, oldWorkerNodeVmc, newWorkerNodeVmc) ==
    IF workerNodeGroupConfiguration.Name \in DOMAIN prevWorkerNodeGroupConfigs
    THEN NeedsNewKubeadmConfigTemplate(workerNodeGroupConfiguration,
             prevWorkerNodeGroupConfigs[workerNodeGroupConfiguration.Name],
             oldWorkerNodeVmc, newWorkerNodeVmc)
    ELSE TRUE

\* lines 590-601: the group's kubeadm config template name, kept or minted
kubeadmconfigTemplate(ctx, newClusterSpec, g, needs) ==
    IF ~needs
    THEN Then(Step(ctx, "call", "GetMachineDeployment",
                   machineDeploymentName(newClusterSpec.Name, g),
                   g \in DOMAIN LiveMachineDeployments \ ctx.missing), LAMBDA c1 :
             [c1 EXCEPT !.kubeadmconfigTemplateNames =
                 Put(@, g, LiveMachineDeployments[g].BootstrapConfigRef)])
    ELSE [Mint(ctx, "kubeadmconfig", g) EXCEPT !.kubeadmconfigTemplateNames =
                 Put(@, g, TemplateName("kubeadmconfig", g, ctx.t))]

\* the machine template name is read from the bootstrap config reference
workloadTemplateFromConfigRef(ctx, newClusterSpec, g, needs) ==
    IF ~needs
    THEN Then(Step(ctx, "call", "GetMachineDeployment",
                   machineDeploymentName(newClusterSpec.Name, g),
                   g \in DOMAIN LiveMachineDeployments \ ctx.missing), LAMBDA c1 :
             [c1 EXCEPT !.workloadTemplateNames =
                 Put(@, g, LiveMachineDeployments[g].BootstrapConfigRef)])
    ELSE [Mint(ctx, "worker", g) EXCEPT !.workloadTemplateNames =
                 Put(@, g, TemplateName("worker", g, ctx.t))]

\* lines 603-614: the group's machine template name, kept or minted
workloadTemplate(ctx, newClusterSpec, g, needs) ==
    IF ~needs
    THEN Then(Step(ctx, "call", "GetMachineDeployment",
                   machineDeploymentName(newClusterSpec.Name, g),
                   g \in DOMAIN LiveMachineDeployments \ ctx.missing), LAMBDA c1 :
             [c1 EXCEPT !.workloadTemplateNames =
                 Put(@, g, LiveMachineDeployments[g].InfrastructureRef)])
    ELSE [Mint(ctx, "worker", g) EXCEPT !.workloadTemplateNames =
                 Put(@, g, TemplateName("worker", g, ctx.t))]

\* lines 576-615: the body of the loop over the new spec's worker node groups
workerNodeGroup(ctx, currentSpec, newClusterSpec, wng) ==
    LET prev == BuildMapForWorkerNodeGroupsByName(
                    currentSpec.WorkerNodeGroupConfigurations)
        vdc == LiveDatacenter
    IN
    Then(getWorkerNodeMachineConfigs(ctx, newClusterSpec, wng, prev), LAMBDA c0 :
        IF /\ wng.Name \in DOMAIN prev
           /\ \/ NilDereferenced(
                     NeedsNewWorkloadTemplate(currentSpec, newClusterSpec, vdc, vdc,
                         AnyMachineConfig, AnyMachineConfig),
                     c0.old, c0.new)
              \/ NilDereferenced(
                     NeedsNewKubeadmConfigTemplate(wng, prev[wng.Name],
                         AnyMachineConfig, AnyMachineConfig),
                     c0.old, c0.new)
        THEN [c0 EXCEPT !.err = Panic]
        ELSE
        LET needsWorkload ==
                needsNewMachineTemplate(currentSpec, newClusterSpec, wng, vdc, prev,
                                        c0.old, c0.new)
            needsKubeadm ==
                needsNewKubeadmConfigTemplate(wng, prev, c0.old, c0.new)
            c1 == [c0 EXCEPT
                     !.needsNewWorkloadTemplate = Put(@, wng.Name, needsWorkload),
                     !.needsNewKubeadmConfigTemplate = Put(@, wng.Name, needsKubeadm)]
        IN
        Then(kubeadmconfigTemplate(c1, newClusterSpec, wng.Name, needsKubeadm),
             LAMBDA c2 :
                workloadTemplate(c2, newClusterSpec, wng.Name, needsWorkload)))

RECURSIVE workerNodeGroups(_, _, _, _)
workerNodeGroups(ctx, currentSpec, newClusterSpec, i) ==
    IF i > Len(newClusterSpec.WorkerNodeGroupConfigurations)
    THEN ctx
    ELSE Then(workerNodeGroup(ctx, currentSpec, newClusterSpec,
                              newClusterSpec.WorkerNodeGroupConfigurations[i]),
              LAMBDA c1 : workerNodeGroups(c1, currentSpec, newClusterSpec, i + 1))

\* the annotation's error is dropped and the name is minted all the same
annotateAndMintIgnoringError(ctx, newClusterSpec) ==
    Bind(Step(ctx, "call", "UpdateAnnotation", <<newClusterSpec.Name, "etcd">>, TRUE),
         LAMBDA c3 :
            [Mint([c3 EXCEPT !.wroteAnnotation = (c3.err = NoErr), !.err = NoErr],
                  "etcd", "")
                EXCEPT !.etcdTemplateName = TemplateName("etcd", "", c3.t)])

\* lines 630-643: the EtcdadmCluster "<clusterName>-etcd" is annotated
\* upgrade-in-progress = "true"; only then the new etcd name is minted
annotateAndMintEtcdTemplate(ctx, newClusterSpec) ==
    Then(Step(ctx, "call", "UpdateAnnotation", <<newClusterSpec.Name, "etcd">>, TRUE),
         LAMBDA c3 :
            [Mint([c3 EXCEPT !.wroteAnnotation = TRUE], "etcd", "")
                EXCEPT !.etcdTemplateName = TemplateName("etcd", "", c3.t)])

\* the EtcdadmCluster is annotated whether or not a new template is needed
etcdTemplateAlwaysAnnotated(ctx, currentSpec, newClusterSpec) ==
    IF newClusterSpec.EtcdRef = NoEtcd THEN ctx ELSE
    Then(Step(ctx, "call", "GetEksaVSphereMachineConfig", LiveCluster.EtcdRef,
              LiveCluster.EtcdRef \in DOMAIN LiveMachineConfigs), LAMBDA c1 :
        LET vdc == LiveDatacenter
            etcdMachineConfig ==
                Lookup(newClusterSpec.VSphereMachineConfigs, newClusterSpec.EtcdRef)
            etcdMachineVmc == LiveMachineConfigs[LiveCluster.EtcdRef]
            needs == NeedsNewEtcdTemplate(currentSpec, newClusterSpec, vdc,
                         newClusterSpec.VSphereDatacenter, etcdMachineVmc,
                         etcdMachineConfig)
            c2 == [c1 EXCEPT !.needsNewEtcdTemplate = needs]
        IN
        IF NilDereferenced(
               NeedsNewEtcdTemplate(currentSpec, newClusterSpec, vdc, vdc,
                   AnyMachineConfig, AnyMachineConfig),
               etcdMachineVmc, etcdMachineConfig)
        THEN [c1 EXCEPT !.err = Panic]
        ELSE
        IF ~needs
        THEN Then(Step(c2, "call", "UpdateAnnotation",
                       <<newClusterSpec.Name, "etcd">>, TRUE), LAMBDA c3 :
             Then(Step([c3 EXCEPT !.wroteAnnotation = TRUE], "call",
                       "GetEtcdadmCluster", newClusterSpec.Name,
                       "EtcdadmCluster" \notin c3.missing), LAMBDA c4 :
                     [c4 EXCEPT !.etcdTemplateName =
                                    LiveEtcdadmCluster.InfrastructureTemplate]))
        ELSE annotateAndMintEtcdTemplate(c2, newClusterSpec))

\* lines 617-644: the etcd template name, kept or, after the EtcdadmCluster
\* is annotated as upgrading, minted
etcdTemplate(ctx, currentSpec, newClusterSpec) ==
    IF newClusterSpec.EtcdRef = NoEtcd THEN ctx ELSE
    Then(Step(ctx, "call", "GetEksaVSphereMachineConfig", LiveCluster.EtcdRef,
              LiveCluster.EtcdRef \in DOMAIN LiveMachineConfigs), LAMBDA c1 :
        LET vdc == LiveDatacenter
            etcdMachineConfig ==
                Lookup(newClusterSpec.VSphereMachineConfigs, newClusterSpec.EtcdRef)
            etcdMachineVmc == LiveMachineConfigs[LiveCluster.EtcdRef]
            needs == NeedsNewEtcdTemplate(currentSpec, newClusterSpec, vdc,
                         newClusterSpec.VSphereDatacenter, etcdMachineVmc,
                         etcdMachineConfig)
            c2 == [c1 EXCEPT !.needsNewEtcdTemplate = needs]
        IN
        IF NilDereferenced(
               NeedsNewEtcdTemplate(currentSpec, newClusterSpec, vdc, vdc,
                   AnyMachineConfig, AnyMachineConfig),
               etcdMachineVmc, etcdMachineConfig)
        THEN [c1 EXCEPT !.err = Panic]
        ELSE
        IF ~needs
        THEN Then(Step(c2, "call", "GetEtcdadmCluster", newClusterSpec.Name,
                       "EtcdadmCluster" \notin c2.missing),
                  LAMBDA c3 :
                     [c3 EXCEPT !.etcdTemplateName =
                                    LiveEtcdadmCluster.InfrastructureTemplate])
        ELSE annotateAndMintEtcdTemplate(c2, newClusterSpec))

\* the workers manifest is rendered although the control plane's failed
renderBothManifests(ctx, newClusterSpec) ==
    Bind(Step(ctx, "render", "GenerateCAPISpecControlPlane", "", TRUE), LAMBDA c1 :
    Bind(Step([c1 EXCEPT !.controlPlaneSpec =
                  [kind |-> "cp",
                   controlPlaneTemplateName |-> c1.controlPlaneTemplateName,
                   etcdTemplateName |-> c1.etcdTemplateName]],
              "render", "GenerateCAPISpecWorkers", "", TRUE), LAMBDA c2 :
        [c2 EXCEPT !.workersSpec =
            [kind |-> "workers",
             workloadTemplateNames |-> c2.workloadTemplateNames,
             kubeadmconfigTemplateNames |-> c2.kubeadmconfigTemplateNames]]))

\* lines 646-659: both manifests are rendered from the names chosen
render(ctx, newClusterSpec) ==
    Then(Step(ctx, "render", "GenerateCAPISpecControlPlane", "", TRUE), LAMBDA c1 :
    Then(Step([c1 EXCEPT !.controlPlaneSpec =
                  [kind |-> "cp",
                   controlPlaneTemplateName |-> c1.controlPlaneTemplateName,
                   etcdTemplateName |-> c1.etcdTemplateName]],
              "render", "GenerateCAPISpecWorkers", "", TRUE), LAMBDA c2 :
        [c2 EXCEPT !.workersSpec =
            [kind |-> "workers",
             workloadTemplateNames |-> c2.workloadTemplateNames,
             kubeadmconfigTemplateNames |-> c2.kubeadmconfigTemplateNames]]))

\* the etcd template is settled before the worker node groups
generateCAPISpecForUpgradeEtcdFirst(bootstrapCluster, currentSpec, newClusterSpec, failAt, t) ==
    Then(controlPlaneTemplate([Ctx0(failAt, t) EXCEPT
                                  !.missing = bootstrapCluster.missing],
                              currentSpec, newClusterSpec),
         LAMBDA c1 :
    Then(etcdTemplate(c1, currentSpec, newClusterSpec), LAMBDA c2 :
    Then(workerNodeGroups(c2, currentSpec, newClusterSpec, 1), LAMBDA c3 :
        render(c3, newClusterSpec))))

\* bootstrapCluster: the cluster the Cluster API resources are read from
generateCAPISpecForUpgrade(bootstrapCluster, currentSpec, newClusterSpec, failAt, t) ==
    Then(controlPlaneTemplate([Ctx0(failAt, t) EXCEPT
                                  !.missing = bootstrapCluster.missing],
                              currentSpec, newClusterSpec),
         LAMBDA c1 :
    Then(workerNodeGroups(c1, currentSpec, newClusterSpec, 1), LAMBDA c2 :
    Then(etcdTemplate(c2, currentSpec, newClusterSpec), LAMBDA c3 :
        render(c3, newClusterSpec))))

\* what GenerateCAPISpecForUpgrade may be asked to upgrade to
UpgradeEdits ==
    SetToSeq({E("scalar", f, "", "") : f \in ScalarFields}
        \cup {E("dc", f, "", "") : f \in {"Network", "Thumbprint"}}
        \cup {E("mc", "NumCPUs", "", mc) : mc \in {"cp-mc", "etcd-mc", "w0-mc"}}
        \cup {E("mc", f, "", "w0-mc") : f \in {"Users", "Annotations"}}
        \cup {E("group", "Taints", g, "") : g \in {"md-0", "md-1"}}
        \cup {E("group", "Labels", "md-1", "")}
        \cup {E("ref", "", "md-0", "w1-mc"), E("addGroup", "", "md-2", "w0-mc"),
              E("removeGroup", "", "md-1", ""), E("noEtcd", "", "", "")}
        \cup {E("dropMC", "", "", mc) : mc \in {"cp-mc", "etcd-mc", "w0-mc"}}
        \cup {E("missing", "", r, "") :
                 r \in {"KubeadmControlPlane", "md-0", "EtcdadmCluster"}})

----------------------------------------------------------------------------
(* ValidateNewSpec *)

RECURSIVE Distinct(_)
\* a sequence without the later occurrences of its elements
Distinct(q) ==
    IF q = << >> THEN << >>
    ELSE LET r == Distinct(SubSeq(q, 1, Len(q) - 1)) IN
         IF \E i \in 1..Len(r) : r[i] = q[Len(q)] THEN r ELSE Append(r, q[Len(q)])

\* Cluster.MachineConfigRefs: the machine configs the control plane, the
\* worker node groups and the external etcd refer to, each once
MachineConfigRefs(cluster) ==
    Distinct(<<cluster.ControlPlaneRef>>
        \o [i \in 1..Len(cluster.WorkerNodeGroupConfigurations) |->
               cluster.WorkerNodeGroupConfigurations[i].MachineGroupRef]
        \o (IF cluster.EtcdRef = NoEtcd THEN << >> ELSE <<cluster.EtcdRef>>))

machineRefSliceToMap(machineRefs) == {machineRefs[i] : i \in 1..Len(machineRefs)}

\* osFamily is not compared
validateMachineConfigImmutabilityStorageOnly(ctx, newConfig) ==
    Then(Step(ctx, "call", "GetEksaVSphereMachineConfig", newConfig.Name,
              newConfig.Name \in DOMAIN LiveMachineConfigs), LAMBDA c1 :
        LET prevMachineConfig == LiveMachineConfigs[newConfig.Name] IN
        IF newConfig.StoragePolicyName # prevMachineConfig.StoragePolicyName
        THEN [c1 EXCEPT !.err = Err("spec.storagePolicyName is immutable",
                                    prevMachineConfig.StoragePolicyName,
                                    newConfig.StoragePolicyName)]
        ELSE c1)

validateMachineConfigImmutability(ctx, newConfig) ==
    Then(Step(ctx, "call", "GetEksaVSphereMachineConfig", newConfig.Name,
              newConfig.Name \in DOMAIN LiveMachineConfigs), LAMBDA c1 :
        LET prevMachineConfig == LiveMachineConfigs[newConfig.Name] IN
        IF newConfig.StoragePolicyName # prevMachineConfig.StoragePolicyName
        THEN [c1 EXCEPT !.err = Err("spec.storagePolicyName is immutable",
                                    prevMachineConfig.StoragePolicyName,
                                    newConfig.StoragePolicyName)]
        ELSE IF newConfig.OSFamily # prevMachineConfig.OSFamily
        THEN [c1 EXCEPT !.err = Err("spec.osFamily is immutable",
                                    prevMachineConfig.OSFamily, newConfig.OSFamily)]
        ELSE c1)

RECURSIVE validateMachineConfigs(_, _, _, _)
\* lines 865-877: every machine config the new spec refers to must be in the
\* spec; one the previous spec referred to as well must keep its immutable
\* fields
validateMachineConfigs(ctx, clusterSpec, refs, prevMachineConfigRefs) ==
    IF refs = << >> THEN ctx
    ELSE LET machineConfig == Lookup(clusterSpec.VSphereMachineConfigs, Head(refs)) IN
         IF machineConfig = Nil
         THEN [ctx EXCEPT !.err = Err("cannot find machine config", 0, 0)]
         ELSE Then(IF machineConfig.Name \in prevMachineConfigRefs
                   THEN validateMachineConfigImmutability(ctx, machineConfig)
                   ELSE ctx,
                   LAMBDA c1 : validateMachineConfigs(c1, clusterSpec, Tail(refs),
                                                      prevMachineConfigRefs))

\* the server error reports the new value twice
datacenterImmutabilityNewTwice(ctx, oSpec, nSpec) ==
    IF nSpec.Server # oSpec.Server
    THEN [ctx EXCEPT !.err = Err("spec.server is immutable",
                                 nSpec.Server, nSpec.Server)]
    ELSE IF nSpec.Datacenter # oSpec.Datacenter
    THEN [ctx EXCEPT !.err = Err("spec.datacenter is immutable",
                                 oSpec.Datacenter, nSpec.Datacenter)]
    ELSE IF nSpec.Network # oSpec.Network
    THEN [ctx EXCEPT !.err = Err("spec.network is immutable",
                                 oSpec.Network, nSpec.Network)]
    ELSE ctx

\* lines 879-888: the errors name the previous and the new value
datacenterImmutability(ctx, oSpec, nSpec) ==
    IF nSpec.Server # oSpec.Server
    THEN [ctx EXCEPT !.err = Err("spec.server is immutable",
                                 oSpec.Server, nSpec.Server)]
    ELSE IF nSpec.Datacenter # oSpec.Datacenter
    THEN [ctx EXCEPT !.err = Err("spec.datacenter is immutable",
                                 oSpec.Datacenter, nSpec.Datacenter)]
    ELSE IF nSpec.Network # oSpec.Network
    THEN [ctx EXCEPT !.err = Err("spec.network is immutable",
                                 oSpec.Network, nSpec.Network)]
    ELSE ctx

\* only the password is compared
secretContentsChangedPasswordOnly(ctx, env) ==
    Then(Step(ctx, "call", "GetSecretFromNamespace", "vsphere-credentials", TRUE),
         LAMBDA c1 :
        IF LiveSecret.password # env.Password
        THEN [c1 EXCEPT !.err =
                 Err("the VSphere credentials derived from VSPHERE_PASSWORD and VSPHERE_USERNAME are immutable", 0, 0)]
        ELSE c1)

\* lines 946-962, and the rejection of lines 895-897
secretContentsChanged(ctx, env) ==
    Then(Step(ctx, "call", "GetSecretFromNamespace", "vsphere-credentials", TRUE),
         LAMBDA c1 :
        IF LiveSecret.password # env.Password \/ LiveSecret.username # env.Username
        THEN [c1 EXCEPT !.err =
                 Err("the VSphere credentials derived from VSPHERE_PASSWORD and VSPHERE_USERNAME are immutable", 0, 0)]
        ELSE c1)

\* the datacenter config is compared before the machine configs are
ValidateNewSpecDatacenterFirst(clusterSpec, env, failAt) ==
    Then(Step(Ctx0(failAt, 0), "call", "GetEksaCluster", clusterSpec.Name, TRUE),
         LAMBDA c1 :
    Then(Step(c1, "call", "GetEksaVSphereDatacenterConfig",
              LiveCluster.VSphereDatacenter.Name, TRUE), LAMBDA c2 :
    Then(datacenterImmutability(c2, LiveDatacenter, clusterSpec.VSphereDatacenter),
         LAMBDA c3 :
    Then(validateMachineConfigs(c3, clusterSpec, MachineConfigRefs(clusterSpec),
              machineRefSliceToMap(MachineConfigRefs(LiveCluster))), LAMBDA c4 :
        secretContentsChanged(c4, env)))))

ValidateNewSpec(clusterSpec, env, failAt) ==
    Then(Step(Ctx0(failAt, 0), "call", "GetEksaCluster", clusterSpec.Name, TRUE),
         LAMBDA c1 :
    Then(Step(c1, "call", "GetEksaVSphereDatacenterConfig",
              LiveCluster.VSphereDatacenter.Name, TRUE), LAMBDA c2 :
    Then(validateMachineConfigs(c2, clusterSpec, MachineConfigRefs(clusterSpec),
              machineRefSliceToMap(MachineConfigRefs(LiveCluster))), LAMBDA c3 :
    Then(datacenterImmutability(c3, LiveDatacenter, clusterSpec.VSphereDatacenter),
         LAMBDA c4 :
        secretContentsChanged(c4, env)))))

\* the new specs and environments ValidateNewSpec may be called with
ValidateEdits ==
    SetToSeq({E("dc", f, "", "") : f \in DatacenterFields}
        \cup {E("mc", f, "", mc) : f \in {"StoragePolicyName", "OSFamily"},
                                   mc \in {"cp-mc", "w1-mc"}}
        \cup {E("env", f, "", "") : f \in {"Username", "Password"}}
        \cup {E("newMC", "", "md-0", "new-mc"), E("dropMC", "", "", "w1-mc"),
              E("noEtcd", "", "", "")})

----------------------------------------------------------------------------
(* SetupAndValidateCreateCluster, SetupAndValidateUpgradeCluster,
   SetupAndValidateDeleteCluster *)

\* In the log of an operation "call" is a call of the cluster-state (kubectl)
\* client, "govc" a step of the validator or the defaulter, which work through
\* the infrastructure (govc) client, and "local" a step that uses neither.

\* an account is checked only when no other configured account has its name
userPrivsOfDistinctAccounts(ctx, setup) ==
    Then(Step(ctx, "govc", "validateUserPrivs", User, User \notin setup.unprivileged),
         LAMBDA c1 :
    Then(IF setup.cpUser # "" /\ setup.cpUser \notin {User, setup.csiUser}
         THEN Step(c1, "govc", "validateCPUserPrivs", setup.cpUser,
                   setup.cpUser \notin setup.unprivileged)
         ELSE c1, LAMBDA c2 :
        IF setup.csiUser # "" /\ setup.csiUser \notin {User, setup.cpUser}
        THEN Step(c2, "govc", "validateCSIUserPrivs", setup.csiUser,
                  setup.csiUser \notin setup.unprivileged)
        ELSE c2))

\* lines 341-368: the privilege checks of up to three service accounts
userPrivs(ctx, setup) ==
    Then(Step(ctx, "govc", "validateUserPrivs", User, User \notin setup.unprivileged),
         LAMBDA c1 :
    Then(IF setup.cpUser # "" /\ setup.cpUser # User
         THEN Step(c1, "govc", "validateCPUserPrivs", setup.cpUser,
                   setup.cpUser \notin setup.unprivileged)
         ELSE c1, LAMBDA c2 :
        IF setup.csiUser # "" /\ setup.csiUser # User
        THEN Step(c2, "govc", "validateCSIUserPrivs", setup.csiUser,
                  setup.csiUser \notin setup.unprivileged)
        ELSE c2))

RECURSIVE searchMachineConfigs(_, _, _)
\* lines 310-318: range over the map of machine configs, in the order `names`
searchMachineConfigs(ctx, names, existing) ==
    IF names = << >> THEN ctx
    ELSE Then(Step(ctx, "call", "SearchVsphereMachineConfig", Head(names), TRUE),
              LAMBDA c1 :
             IF Head(names) \in existing
             THEN [c1 EXCEPT !.err = Err("VSphereMachineConfig already exists", 0, 0)]
             ELSE searchMachineConfigs(c1, Tail(names), existing))

\* the datacenter config is not searched for
nameCollisionsMachineConfigsOnly(ctx, clusterSpec, setup, names) ==
    IF ~setup.managed THEN ctx
    ELSE searchMachineConfigs(ctx, names, setup.existing)

\* lines 309-331
nameCollisions(ctx, clusterSpec, setup, names) ==
    IF ~setup.managed THEN ctx
    ELSE Then(searchMachineConfigs(ctx, names, setup.existing), LAMBDA c1 :
         Then(Step(c1, "call", "SearchVsphereDatacenterConfig",
                   clusterSpec.VSphereDatacenter.Name, TRUE), LAMBDA c2 :
             IF clusterSpec.VSphereDatacenter.Name \in setup.existing
             THEN [c2 EXCEPT !.err = Err("VSphereDatacenter already exists", 0, 0)]
             ELSE c2))

\* the datacenter config is validated before its defaults are set
setupAndValidateBeforeDefaults(ctx, clusterSpec) ==
    Then(Step(ctx, "local", "validateUpgradeRolloutStrategy", "", TRUE), LAMBDA c1 :
    Then(Step(c1, "local", "SetupEnvVars", "", TRUE), LAMBDA c2 :
    Then(Step(c2, "local", "VSphereDatacenter.Validate", "", TRUE), LAMBDA c3 :
    Then(Step(c3, "govc", "SetDefaultsForDatacenterConfig", "", TRUE), LAMBDA c4 :
    Then(Step(c4, "govc", "ValidateVCenterConfig", "", TRUE), LAMBDA c5 :
    Then(Step(c5, "govc", "setDefaultsForMachineConfig", "", TRUE), LAMBDA c6 :
        Step(c6, "govc", "ValidateClusterMachineConfigs", "", TRUE)))))))

\* lines 275-302 (and 374-401): rollout strategy, environment, defaults and
\* validation of the datacenter config and of the machine configs
setupAndValidate(ctx, clusterSpec) ==
    Then(Step(ctx, "local", "validateUpgradeRolloutStrategy", "", TRUE), LAMBDA c1 :
    Then(Step(c1, "local", "SetupEnvVars", "", TRUE), LAMBDA c2 :
    Then(Step(c2, "govc", "SetDefaultsForDatacenterConfig", "", TRUE), LAMBDA c3 :
    Then(Step(c3, "local", "VSphereDatacenter.Validate", "", TRUE), LAMBDA c4 :
    Then(Step(c4, "govc", "ValidateVCenterConfig", "", TRUE), LAMBDA c5 :
    Then(Step(c5, "govc", "setDefaultsForMachineConfig", "", TRUE), LAMBDA c6 :
        Step(c6, "govc", "ValidateClusterMachineConfigs", "", TRUE)))))))

SetupAndValidateCreateCluster(clusterSpec, setup, names, failAt) ==
    Then(setupAndValidate(Ctx0(failAt, 0), clusterSpec), LAMBDA c1 :
    Then(Step(c1, "local", "generateSSHKeysIfNotSet", "", TRUE), LAMBDA c2 :
    Then(nameCollisions(c2, clusterSpec, setup, names), LAMBDA c3 :
    Then(IF ~setup.skipIPCheck
         THEN Step(c3, "local", "ValidateControlPlaneIPUniqueness", "", TRUE)
         ELSE c3, LAMBDA c4 :
        userPrivs(c4, setup)))))

\* lines 410-441; the VSphereMachineConfigs in the cluster are its own and
\* setup.existing
validateMachineConfigsNameUniqueness(ctx, clusterSpec, setup) ==
    LET prevSpec == LiveCluster
        inCluster == DOMAIN LiveMachineConfigs \cup setup.existing
        cpMachineConfigName == clusterSpec.ControlPlaneRef
        etcdMachineConfigName == clusterSpec.EtcdRef
    IN
    Then(Step(ctx, "call", "GetEksaCluster", clusterSpec.Name, TRUE), LAMBDA c1 :
    Then(IF prevSpec.ControlPlaneRef # cpMachineConfigName
         THEN Then(Step(c1, "call", "SearchVsphereMachineConfig",
                        cpMachineConfigName, TRUE), LAMBDA c :
                  IF cpMachineConfigName \in inCluster
                  THEN [c EXCEPT !.err =
                           Err("control plane VSphereMachineConfig already exists", 0, 0)]
                  ELSE c)
         ELSE c1, LAMBDA c2 :
        IF /\ clusterSpec.EtcdRef # NoEtcd
           /\ prevSpec.EtcdRef # NoEtcd
           /\ prevSpec.EtcdRef # etcdMachineConfigName
        THEN Then(Step(c2, "call", "SearchVsphereMachineConfig",
                       etcdMachineConfigName, TRUE), LAMBDA c :
                 IF etcdMachineConfigName \in inCluster
                 THEN [c EXCEPT !.err =
                          Err("external etcd machineconfig already exists", 0, 0)]
                 ELSE c)
        ELSE c2))

SetupAndValidateUpgradeCluster(clusterSpec, setup, failAt) ==
    Then(setupAndValidate(Ctx0(failAt, 0), clusterSpec), LAMBDA c1 :
        validateMachineConfigsNameUniqueness(c1, clusterSpec, setup))

\* the error of SetupEnvVars is dropped
SetupAndValidateDeleteClusterNoEnvError(spec, failAt) ==
    Then(Step(Ctx0(failAt, 0), "local", "validateUpgradeRolloutStrategy", "", TRUE),
         LAMBDA c1 :
        [Step(c1, "local", "SetupEnvVars", "", TRUE) EXCEPT !.err = NoErr])

\* lines 457-465
SetupAndValidateDeleteCluster(spec, failAt) ==
    Then(Step(Ctx0(failAt, 0), "local", "validateUpgradeRolloutStrategy", "", TRUE),
         LAMBDA c1 :
        Step(c1, "local", "SetupEnvVars", "", TRUE))

\* the accounts, the resources of the target namespace and the provider's
\* options around a create
CreateEdits ==
    <<E("managed", "", "", ""), E("skipIPCheck", "", "", ""),
      E("exists", "", "", "w0-mc"), E("exists", "", "", "other-mc"),
      E("exists", "", "", "dc"),
      E("cpUser", "", "", "cp"), E("cpUser", "", "", User),
      E("csiUser", "", "", "csi"), E("csiUser", "", "", "cp"),
      E("unprivileged", "", "", User), E("unprivileged", "", "", "cp"),
      E("unprivileged", "", "", "csi")>>

\* the new specs of an upgrade: machine group references changed to machine
\* configs the previous spec refers to elsewhere or does not refer to
SetupUpgradeEdits ==
    <<E("cpRef", "", "", "w0-mc"), E("cpRef", "", "", "new-mc"),
      E("etcdRef", "", "", "new-mc"), E("etcdRef", "", "", "cp-mc"),
      E("newMC", "", "md-0", "new-mc"), E("ref", "", "md-0", "w1-mc"),
      E("noEtcd", "", "", ""),
      E("exists", "", "", "new-mc"),
      E("unprivileged", "", "", User)>>

RECURSIVE Orders(_)
\* the orders a range over a map with the keys S may take
Orders(S) ==
    IF S = {} THEN {<< >>}
    ELSE UNION {{<<x>> \o q : q \in Orders(S \ {x})} : x \in S}

----------------------------------------------------------------------------
(* UpgradeNeeded, ChangeDiff *)

ImageDigests ==
    {"DriverImageDigest", "SyncerImageDigest", "ManagerImageDigest",
     "KubeVipImageDigest"}

\* the Spec of a VSphereMachineConfig and of a VSphereDatacenterConfig, as
\* reflect.DeepEqual compares them: every field but the metadata
MachineConfigSpec(vmc) == [f \in MachineFields \ {"Annotations"} |-> vmc[f]]
DatacenterConfigSpec(vdc) == [f \in DatacenterFields |-> vdc[f]]

RECURSIVE machineConfigsSpecChanged(_, _, _)
\* lines 192-210, `refs` being what is left of cc.MachineConfigRefs()
machineConfigsSpecChanged(ctx, refs, newClusterSpec) ==
    IF refs = << >> THEN ctx
    ELSE Then(Step(ctx, "call", "GetEksaVSphereMachineConfig", Head(refs),
                   Head(refs) \in DOMAIN LiveMachineConfigs), LAMBDA c1 :
             LET existingVmc == LiveMachineConfigs[Head(refs)]
                 csmc == Lookup(newClusterSpec.VSphereMachineConfigs, Head(refs))
             IN IF csmc = Nil THEN [c1 EXCEPT !.result = TRUE]
                ELSE IF MachineConfigSpec(existingVmc) # MachineConfigSpec(csmc)
                THEN [c1 EXCEPT !.result = TRUE]
                ELSE machineConfigsSpecChanged(c1, Tail(refs), newClusterSpec))

\* lines 988-1012; on an error the result is false
UpgradeNeeded(newSpec, currentSpec, failAt) ==
    IF \E d \in ImageDigests : newSpec[d] # currentSpec[d]
    THEN [Ctx0(failAt, 0) EXCEPT !.result = TRUE]
    ELSE Then(Step(Ctx0(failAt, 0), "call", "GetEksaVSphereDatacenterConfig",
                   currentSpec.VSphereDatacenter.Name, TRUE), LAMBDA c1 :
             IF DatacenterConfigSpec(LiveDatacenter)
                    # DatacenterConfigSpec(newSpec.VSphereDatacenter)
             THEN [c1 EXCEPT !.result = TRUE]
             ELSE machineConfigsSpecChanged(c1, MachineConfigRefs(currentSpec),
                                            newSpec))

UpgradeNeededEdits ==
    SetToSeq({E("scalar", d, "", "") : d \in ImageDigests}
        \cup {E("dc", f, "", "") : f \in {"Server", "Thumbprint"}}
        \cup {E("mc", f, "", "w1-mc") : f \in {"NumCPUs", "OSFamily", "Annotations"}}
        \cup {E("mc", "Users", "", "cp-mc"),
              E("newMC", "", "md-0", "new-mc"), E("dropMC", "", "", "w0-mc"),
              E("ref", "", "md-0", "w1-mc")})

VSphereProviderName == "vsphere"
NoDiff == [ComponentName |-> "nil"]

\* the versions change places
ChangeDiffSwapped(currentSpec, newSpec) ==
    IF currentSpec.VSphereVersion = newSpec.VSphereVersion THEN NoDiff
    ELSE [ComponentName |-> VSphereProviderName,
          NewVersion |-> currentSpec.VSphereVersion,
          OldVersion |-> newSpec.VSphereVersion]

\* lines 964-974
ChangeDiff(currentSpec, newSpec) ==
    IF currentSpec.VSphereVersion = newSpec.VSphereVersion THEN NoDiff
    ELSE [ComponentName |-> VSphereProviderName,
          NewVersion |-> newSpec.VSphereVersion,
          OldVersion |-> currentSpec.VSphereVersion]

\* the current and the new spec of a ChangeDiff: the version of the vSphere
\* component and other fields of the bundle changed on either side
ChangeDiffEdits ==
    <<E("scalar", "VSphereVersion", "", ""), E("scalar", "BundleNumber", "", ""),
      E("scalar", "KubernetesVersion", "", ""),
      E("scalar", "DriverImageDigest", "", "")>>

----------------------------------------------------------------------------
(* generateCAPISpecForCreate *)

\* lines 677-682: a machine template name and a kubeadm config template name
\* for every worker node group, both of this instant
mintWorkerTemplateNames(ctx, groups) ==
    [ctx EXCEPT
        !.calls = @ \o [i \in 1..(2 * Len(groups)) |->
                           IF i % 2 = 1
                           THEN Ev("mint", "worker", groups[(i + 1) \div 2].Name, TRUE)
                           ELSE Ev("mint", "kubeadmconfig", groups[i \div 2].Name, TRUE)],
        !.workloadTemplateNames =
            [g \in {groups[i].Name : i \in 1..Len(groups)} |->
                TemplateName("worker", g, ctx.t)],
        !.kubeadmconfigTemplateNames =
            [g \in {groups[i].Name : i \in 1..Len(groups)} |->
                TemplateName("kubeadmconfig", g, ctx.t)]]

\* the control plane keeps the name of the live KubeadmControlPlane
generateCAPISpecForCreateLiveName(clusterSpec, failAt, t) ==
    Then(Step([Mint(Mint(Ctx0(failAt, t), "cp", ""), "etcd", "") EXCEPT
                  !.controlPlaneTemplateName = LiveKubeadmControlPlane.InfrastructureRef,
                  !.etcdTemplateName = TemplateName("etcd", "", t)],
              "render", "GenerateCAPISpecControlPlane", "", TRUE), LAMBDA c1 :
    Then(Step(mintWorkerTemplateNames(
                  [c1 EXCEPT !.controlPlaneSpec =
                      [kind |-> "cp",
                       controlPlaneTemplateName |-> c1.controlPlaneTemplateName,
                       etcdTemplateName |-> c1.etcdTemplateName]],
                  clusterSpec.WorkerNodeGroupConfigurations),
              "render", "GenerateCAPISpecWorkers", "", TRUE), LAMBDA c2 :
        [c2 EXCEPT !.workersSpec =
            [kind |-> "workers",
             workloadTemplateNames |-> c2.workloadTemplateNames,
             kubeadmconfigTemplateNames |-> c2.kubeadmconfigTemplateNames]]))

\* lines 662-688: the control plane manifest is rendered with the two names
\* cpOpt mints, the workers manifest with the names minted for the groups
generateCAPISpecForCreate(clusterSpec, failAt, t) ==
    Then(Step([Mint(Mint(Ctx0(failAt, t), "cp", ""), "etcd", "") EXCEPT
                  !.controlPlaneTemplateName = TemplateName("cp", "", t),
                  !.etcdTemplateName = TemplateName("etcd", "", t)],
              "render", "GenerateCAPISpecControlPlane", "", TRUE), LAMBDA c1 :
    Then(Step(mintWorkerTemplateNames(
                  [c1 EXCEPT !.controlPlaneSpec =
                      [kind |-> "cp",
                       controlPlaneTemplateName |-> c1.controlPlaneTemplateName,
                       etcdTemplateName |-> c1.etcdTemplateName]],
                  clusterSpec.WorkerNodeGroupConfigurations),
              "render", "GenerateCAPISpecWorkers", "", TRUE), LAMBDA c2 :
        [c2 EXCEPT !.workersSpec =
            [kind |-> "workers",
             workloadTemplateNames |-> c2.workloadTemplateNames,
             kubeadmconfigTemplateNames |-> c2.kubeadmconfigTemplateNames]]))

\* the specs a cluster may be created from
GenerateCreateEdits ==
    <<E("noEtcd", "", "", ""), E("removeGroup", "", "md-1", ""),
      E("addGroup", "", "md-2", "w0-mc")>>

----------------------------------------------------------------------------
(* EnvMap *)

vSphereUsernameKey == "VSPHERE_USERNAME"
vSpherePasswordKey == "VSPHERE_PASSWORD"
expClusterResourceSetKey == "EXP_CLUSTER_RESOURCE_SET"
requiredEnvs == <<vSphereUsernameKey, vSpherePasswordKey, expClusterResourceSetKey>>

\* A variable of the process environment: unset, or set to a value that may
\* be the empty string.
Unset == [set |-> FALSE, value |-> ""]
Set(v) == [set |-> TRUE, value |-> v]
Environments ==
    [{requiredEnvs[i] : i \in 1..Len(requiredEnvs)} ->
        {Unset, Set(""), Set("a"), Set("b")}]

RECURSIVE envMapFrom(_, _, _)
\* lines 762-768: the loop over requiredEnvs, from its i-th key on
envMapFrom(env, i, envMap) ==
    IF i > Len(requiredEnvs)
    THEN [envMap |-> envMap, err |-> NoErr]
    ELSE LET key == requiredEnvs[i] IN
         IF env[key].set /\ env[key].value # ""
         THEN envMapFrom(env, i + 1, Put(envMap, key, env[key].value))
         ELSE [envMap |-> envMap,
               err |-> Err("warning required env not set", key, 0)]

\* the username is not required
EnvMapWithoutUsername(env) == envMapFrom(env, 2, EmptyMap)

EnvMap(env) == envMapFrom(env, 1, EmptyMap)

----------------------------------------------------------------------------
(* Operations *)

Idle == [name |-> "idle"]

\* lines 690-696: on an error both manifests are nil
GenerateCAPISpecForUpgrade ==
    /\ op = Idle
    /\ \E in \in Inputs(UpgradeEdits) :
       \E failAt \in 0..generateCAPISpecForUpgrade(in.setup, BaseSpec, in.spec, 0, now).n :
       \E r \in {generateCAPISpecForUpgrade(in.setup, BaseSpec, in.spec, failAt, now)} :
        /\ op' = [name |-> "GenerateCAPISpecForUpgrade",
                  newSpec |-> in.spec, missing |-> in.setup.missing,
                  calls |-> r.calls, err |-> r.err,
                  needsNewControlPlaneTemplate |-> r.needsNewControlPlaneTemplate,
                  needsNewEtcdTemplate |-> r.needsNewEtcdTemplate,
                  needsNewWorkloadTemplate |-> r.needsNewWorkloadTemplate,
                  needsNewKubeadmConfigTemplate |-> r.needsNewKubeadmConfigTemplate,
                  controlPlaneSpec |->
                      IF r.err # NoErr THEN NilBytes ELSE r.controlPlaneSpec,
                  workersSpec |->
                      IF r.err # NoErr THEN NilBytes ELSE r.workersSpec]
        /\ annotated' = (annotated \/ r.wroteAnnotation)
    /\ UNCHANGED now

DoValidateNewSpec ==
    /\ op = Idle
    /\ \E in \in Inputs(ValidateEdits) :
       \E failAt \in 0..ValidateNewSpec(in.spec, in.env, 0).n :
       \E r \in {ValidateNewSpec(in.spec, in.env, failAt)} :
        op' = [name |-> "ValidateNewSpec", newSpec |-> in.spec, env |-> in.env,
               calls |-> r.calls, err |-> r.err]
    /\ UNCHANGED <<annotated, now>>

DoSetupAndValidateCreateCluster ==
    /\ op = Idle
    /\ \E in \in Inputs(CreateEdits) :
       \E names \in (IF in.setup.managed
                     THEN Orders(DOMAIN in.spec.VSphereMachineConfigs)
                     ELSE {<< >>}) :
       \E failAt \in 0..SetupAndValidateCreateCluster(in.spec, in.setup, names, 0).n :
       \E r \in {SetupAndValidateCreateCluster(in.spec, in.setup, names, failAt)} :
        op' = [name |-> "SetupAndValidateCreateCluster", spec |-> in.spec,
               setup |-> in.setup, calls |-> r.calls, err |-> r.err]
    /\ UNCHANGED <<annotated, now>>

DoSetupAndValidateUpgradeCluster ==
    /\ op = Idle
    /\ \E in \in Inputs(SetupUpgradeEdits) :
       \E failAt \in 0..SetupAndValidateUpgradeCluster(in.spec, in.setup, 0).n :
       \E r \in {SetupAndValidateUpgradeCluster(in.spec, in.setup, failAt)} :
        op' = [name |-> "SetupAndValidateUpgradeCluster", newSpec |-> in.spec,
               setup |-> in.setup, calls |-> r.calls, err |-> r.err]
    /\ UNCHANGED <<annotated, now>>

DoSetupAndValidateDeleteCluster ==
    /\ op = Idle
    /\ \E failAt \in 0..SetupAndValidateDeleteCluster(BaseSpec, 0).n :
       \E r \in {SetupAndValidateDeleteCluster(BaseSpec, failAt)} :
        op' = [name |-> "SetupAndValidateDeleteCluster", spec |-> BaseSpec,
               calls |-> r.calls, err |-> r.err]
    /\ UNCHANGED <<annotated, now>>

DoUpgradeNeeded ==
    /\ op = Idle
    /\ \E in \in Inputs(UpgradeNeededEdits) :
       \E failAt \in 0..UpgradeNeeded(in.spec, BaseSpec, 0).n :
       \E r \in {UpgradeNeeded(in.spec, BaseSpec, failAt)} :
        op' = [name |-> "UpgradeNeeded", newSpec |-> in.spec,
               currentSpec |-> BaseSpec, calls |-> r.calls,
               result |-> (r.err = NoErr /\ r.result), err |-> r.err]
    /\ UNCHANGED <<annotated, now>>

DoChangeDiff ==
    /\ op = Idle
    /\ \E cur \in Inputs(ChangeDiffEdits), new \in Inputs(ChangeDiffEdits) :
        op' = [name |-> "ChangeDiff", currentSpec |-> cur.spec,
               newSpec |-> new.spec, diff |-> ChangeDiff(cur.spec, new.spec)]
    /\ UNCHANGED <<annotated, now>>

IsCreate == op.name = "GenerateCAPISpecForCreate"

\* the manifests the caller holds from the call before this one
NoPrevious == [name |-> "none"]
Previous ==
    IF IsCreate /\ op.err = NoErr
    THEN [spec |-> op.spec, controlPlaneSpec |-> op.controlPlaneSpec,
          workersSpec |-> op.workersSpec]
    ELSE NoPrevious

\* lines 698-704: on an error both manifests are nil.  The caller may call
\* again while it holds the manifests of its last call.
GenerateCAPISpecForCreate ==
    /\ op = Idle \/ IsCreate
    /\ \E in \in Inputs(GenerateCreateEdits) :
       \E failAt \in 0..generateCAPISpecForCreate(in.spec, 0, now).n :
       \E r \in {generateCAPISpecForCreate(in.spec, failAt, now)} :
        op' = [name |-> "GenerateCAPISpecForCreate", spec |-> in.spec,
               t |-> now, previous |-> Previous,
               calls |-> r.calls, err |-> r.err,
               controlPlaneSpec |->
                   IF r.err # NoErr THEN NilBytes ELSE r.controlPlaneSpec,
               workersSpec |->
                   IF r.err # NoErr THEN NilBytes ELSE r.workersSpec]
    /\ UNCHANGED <<annotated, now>>

DoEnvMap ==
    /\ op = Idle
    /\ \E env \in Environments :
       \E r \in {EnvMap(env)} :
        op' = [name |-> "EnvMap", env |-> env, calls |-> << >>,
               envMap |-> r.envMap, err |-> r.err]
    /\ UNCHANGED <<annotated, now>>

\* lines 631-634: the etcdadm controller removes the annotation once the
\* etcd upgrade is complete
EtcdUpgradeComplete ==
    /\ op = Idle
    /\ annotated
    /\ annotated' = FALSE
    /\ UNCHANGED <<now, op>>

\* The decision functions applied to an old and a new spec, their datacenter
\* configs, one machine config and one worker node group of each.
Differ ==
    /\ op = Idle
    /\ \E in \in Inputs(DifferEdits) :
        LET old == BaseSpec
            new == in.spec
            oldVdc == old.VSphereDatacenter
            newVdc == new.VSphereDatacenter
            oldVmc == old.VSphereMachineConfigs["w0-mc"]
            newVmc == new.VSphereMachineConfigs["w0-mc"]
            oldWng == old.WorkerNodeGroupConfigurations[1]
            newWng == new.WorkerNodeGroupConfigurations[1]
        IN op' = [name |-> "Differ",
                  oldSpec |-> old, newSpec |-> new,
                  oldVmc |-> oldVmc, newVmc |-> newVmc,
                  oldWng |-> oldWng, newWng |-> newWng,
                  anyImmutableFieldChanged |->
                      AnyImmutableFieldChanged(oldVdc, newVdc, oldVmc, newVmc),
                  needsNewControlPlaneTemplate |->
                      NeedsNewControlPlaneTemplate(old, new, oldVdc, newVdc, oldVmc, newVmc),
                  needsNewWorkloadTemplate |->
                      NeedsNewWorkloadTemplate(old, new, oldVdc, newVdc, oldVmc, newVmc),
                  needsNewEtcdTemplate |->
                      NeedsNewEtcdTemplate(old, new, oldVdc, newVdc, oldVmc, newVmc),
                  needsNewKubeadmConfigTemplate |->
                      NeedsNewKubeadmConfigTemplate(newWng, oldWng, oldVmc, newVmc)]
    /\ UNCHANGED <<annotated, now>>

\* The caller takes the result; the provider is ready for the next operation.
Return ==
    /\ op # Idle
    /\ op' = Idle
    /\ UNCHANGED <<annotated, now>>

\* Time passes between operations.
Tick ==
    /\ op = Idle \/ IsCreate
    /\ now < MaxTime
    /\ now' = now + 1
    /\ UNCHANGED <<annotated, op>>

Init ==
    /\ annotated = FALSE
    /\ now = 1
    /\ op = Idle

Next ==
    \/ Differ
    \/ GenerateCAPISpecForUpgrade
    \/ DoValidateNewSpec
    \/ DoSetupAndValidateCreateCluster
    \/ DoSetupAndValidateUpgradeCluster
    \/ DoSetupAndValidateDeleteCluster
    \/ DoUpgradeNeeded
    \/ DoChangeDiff
    \/ GenerateCAPISpecForCreate
    \/ DoEnvMap
    \/ EtcdUpgradeComplete
    \/ Return
    \/ Tick

Spec == Init /\ [][Next]_vars

----------------------------------------------------------------------------
(* Properties *)

IsUpgrade == op.name = "GenerateCAPISpecForUpgrade"
IsValidate == op.name = "ValidateNewSpec"
IsDiffer == op.name = "Differ"

GroupNames(spec) ==
    {spec.WorkerNodeGroupConfigurations[i].Name :
        i \in 1..Len(spec.WorkerNodeGroupConfigurations)}
Group(spec, name) == BuildMapForWorkerNodeGroupsByName(
                         spec.WorkerNodeGroupConfigurations)[name]

\* the template-affecting fields of a machine config and of a datacenter config
TemplateAffecting ==
    {"NumCPUs", "MemoryMiB", "DiskGiB", "Datastore", "Folder", "ResourcePool",
     "Template"}
TemplateAffectingChanged(oldVdc, newVdc, oldVmc, newVmc) ==
    \/ \E f \in TemplateAffecting : oldVmc[f] # newVmc[f]
    \/ \E f \in {"Network", "Thumbprint"} : oldVdc[f] # newVdc[f]

Minted(kind, group) == TemplateName(kind, group, now)

\* the new spec has external etcd and it needs a new etcd template
EtcdNeedsNew(new) ==
    /\ new.EtcdRef # NoEtcd
    /\ ~NilDereferenced(
            NeedsNewEtcdTemplate(BaseSpec, new, LiveDatacenter, LiveDatacenter,
                AnyMachineConfig, AnyMachineConfig),
            LiveMachineConfigs[LiveCluster.EtcdRef],
            Lookup(new.VSphereMachineConfigs, new.EtcdRef))
    /\ NeedsNewEtcdTemplate(BaseSpec, new, LiveDatacenter, new.VSphereDatacenter,
           LiveMachineConfigs[LiveCluster.EtcdRef],
           Lookup(new.VSphereMachineConfigs, new.EtcdRef))

AnnotatedBefore(i) ==
    \E j \in 1..(i - 1) :
        /\ op.calls[j].what = "UpdateAnnotation"
        /\ op.calls[j].ok

\* C1: in GenerateCAPISpecForUpgrade the new etcd template name is minted, and
\* (when the new spec has external etcd that needs a new template) the control
\* plane manifest is rendered, only after UpdateAnnotation has returned
\* successfully; manifests that carry a newly minted etcd name are returned
\* only with the annotation written to the live EtcdadmCluster.
C1_AnnotationBeforeEtcdName ==
    IsUpgrade =>
        /\ \A i \in 1..Len(op.calls) :
              (\/ op.calls[i].ev = "mint" /\ op.calls[i].what = "etcd"
               \/ /\ op.calls[i].ev = "render"
                  /\ op.calls[i].what = "GenerateCAPISpecControlPlane"
                  /\ EtcdNeedsNew(op.newSpec))
              => AnnotatedBefore(i)
        /\ (op.err = NoErr /\ op.controlPlaneSpec.etcdTemplateName = Minted("etcd", ""))
              => (AnnotatedBefore(Len(op.calls)) /\ annotated)

C1_Witness ==
    /\ IsUpgrade
    /\ EtcdNeedsNew(op.newSpec)
    /\ op.err = NoErr
    /\ op.controlPlaneSpec.etcdTemplateName = Minted("etcd", "")

\* C2: in a GenerateCAPISpecForUpgrade that returns manifests, the control
\* plane, the external etcd and every worker node group of both specs get,
\* when the decision "needs new template" is false, exactly the name recorded
\* in the live KubeadmControlPlane / EtcdadmCluster / MachineDeployment
\* (infrastructureRef for the machine template, bootstrap configRef for the
\* kubeadm config template), and a newly minted name when it is true.
C2_NamesFollowDecisions ==
    (IsUpgrade /\ op.err = NoErr) =>
        /\ op.needsNewControlPlaneTemplate =
              NeedsNewControlPlaneTemplate(BaseSpec, op.newSpec, LiveDatacenter,
                  op.newSpec.VSphereDatacenter,
                  LiveMachineConfigs[LiveCluster.ControlPlaneRef],
                  op.newSpec.VSphereMachineConfigs[op.newSpec.ControlPlaneRef])
        /\ op.controlPlaneSpec.controlPlaneTemplateName =
              IF op.needsNewControlPlaneTemplate
              THEN Minted("cp", "")
              ELSE LiveKubeadmControlPlane.InfrastructureRef
        /\ op.newSpec.EtcdRef # NoEtcd =>
              /\ op.needsNewEtcdTemplate = EtcdNeedsNew(op.newSpec)
              /\ op.controlPlaneSpec.etcdTemplateName =
                    IF op.needsNewEtcdTemplate
                    THEN Minted("etcd", "")
                    ELSE LiveEtcdadmCluster.InfrastructureTemplate
        /\ \A g \in GroupNames(op.newSpec) \cap GroupNames(BaseSpec) :
              /\ op.workersSpec.workloadTemplateNames[g] =
                    IF op.needsNewWorkloadTemplate[g]
                    THEN Minted("worker", g)
                    ELSE LiveMachineDeployments[g].InfrastructureRef
              /\ op.workersSpec.kubeadmconfigTemplateNames[g] =
                    IF op.needsNewKubeadmConfigTemplate[g]
                    THEN Minted("kubeadmconfig", g)
                    ELSE LiveMachineDeployments[g].BootstrapConfigRef

\* names are kept for one worker node group and minted for the control plane
C2_Witness ==
    /\ IsUpgrade
    /\ op.err = NoErr
    /\ op.needsNewControlPlaneTemplate
    /\ op.newSpec.EtcdRef # NoEtcd
    /\ ~op.needsNewEtcdTemplate
    /\ \E g \in GroupNames(op.newSpec) \cap GroupNames(BaseSpec) :
          /\ ~op.needsNewWorkloadTemplate[g]
          /\ ~op.needsNewKubeadmConfigTemplate[g]
          /\ op.workersSpec.workloadTemplateNames[g] =
                LiveMachineDeployments[g].InfrastructureRef

\* C3: a worker node group of the new spec whose name the previous spec does
\* not have gets needsNewWorkloadTemplate = TRUE and
\* needsNewKubeadmConfigTemplate = TRUE, and both its names newly minted,
\* whatever else was changed.
C3_AddedGroupNeedsBoth ==
    IsUpgrade =>
        \A g \in DOMAIN op.needsNewKubeadmConfigTemplate :
            g \notin GroupNames(BaseSpec) =>
                /\ op.needsNewWorkloadTemplate[g]
                /\ op.needsNewKubeadmConfigTemplate[g]
                /\ op.err = NoErr =>
                      /\ op.workersSpec.workloadTemplateNames[g] = Minted("worker", g)
                      /\ op.workersSpec.kubeadmconfigTemplateNames[g] =
                            Minted("kubeadmconfig", g)

C3_Witness ==
    /\ IsUpgrade
    /\ op.err = NoErr
    /\ \E g \in GroupNames(op.newSpec) \ GroupNames(BaseSpec) :
          /\ op.workersSpec.workloadTemplateNames[g] = Minted("worker", g)
          /\ op.newSpec.VSphereMachineConfigs = BaseSpec.VSphereMachineConfigs

\* a worker node group of both specs whose taints, labels, machine group
\* reference and machine config are what they were
GroupUnchanged(new, g) ==
    /\ g \in GroupNames(new) \cap GroupNames(BaseSpec)
    /\ Group(new, g) = Group(BaseSpec, g)
    /\ new.VSphereMachineConfigs[Group(new, g).MachineGroupRef] =
          BaseSpec.VSphereMachineConfigs[Group(BaseSpec, g).MachineGroupRef]

\* C4: with the Kubernetes version, the bundle number and the datacenter
\* config unchanged, a worker node group of both specs whose own taints,
\* labels and machine config are unchanged keeps its machine template name,
\* whatever happens to the other worker node groups.
C4_GroupsDecideIndependently ==
    (/\ IsUpgrade
     /\ op.err = NoErr
     /\ op.newSpec.KubernetesVersion = BaseSpec.KubernetesVersion
     /\ op.newSpec.BundleNumber = BaseSpec.BundleNumber
     /\ op.newSpec.VSphereDatacenter = BaseSpec.VSphereDatacenter) =>
        \A g \in GroupNames(op.newSpec) :
            GroupUnchanged(op.newSpec, g) =>
                op.workersSpec.workloadTemplateNames[g] =
                    LiveMachineDeployments[g].InfrastructureRef

\* C5: for a worker node group of both specs, the previous side of the
\* group's decisions is the machine config the group referred to in the
\* previous spec: a group whose machineGroupRef now names a machine config
\* that differs from the previous one in a template-affecting field gets a
\* new machine template, and one that differs in its users a new kubeadm
\* config template.
C5_PreviousConfigOfTheGroup ==
    IsUpgrade =>
        \A g \in DOMAIN op.needsNewKubeadmConfigTemplate \cap GroupNames(BaseSpec) :
            LET oldVmc == BaseSpec.VSphereMachineConfigs[Group(BaseSpec, g).MachineGroupRef]
                newVmc == op.newSpec.VSphereMachineConfigs[Group(op.newSpec, g).MachineGroupRef]
            IN Group(op.newSpec, g).MachineGroupRef # Group(BaseSpec, g).MachineGroupRef =>
                /\ (\E f \in TemplateAffecting : oldVmc[f] # newVmc[f])
                      => op.needsNewWorkloadTemplate[g]
                /\ oldVmc.Users # newVmc.Users
                      => op.needsNewKubeadmConfigTemplate[g]

\* C6 as stated: identical Kubernetes version, bundle number and
\* template-affecting machine and datacenter fields give
\* NeedsNewControlPlaneTemplate = FALSE.
C6_AsStated ==
    (/\ IsDiffer
     /\ op.oldSpec.KubernetesVersion = op.newSpec.KubernetesVersion
     /\ op.oldSpec.BundleNumber = op.newSpec.BundleNumber
     /\ ~TemplateAffectingChanged(op.oldSpec.VSphereDatacenter,
            op.newSpec.VSphereDatacenter, op.oldVmc, op.newVmc))
        => ~op.needsNewControlPlaneTemplate

\* C6, amended: identical Kubernetes version, bundle number, control plane
\* endpoint host and template-affecting machine and datacenter fields give
\* NeedsNewControlPlaneTemplate = FALSE.
C6_NoChangeNoControlPlaneTemplate ==
    (/\ IsDiffer
     /\ op.oldSpec.KubernetesVersion = op.newSpec.KubernetesVersion
     /\ op.oldSpec.BundleNumber = op.newSpec.BundleNumber
     /\ op.oldSpec.EndpointHost = op.newSpec.EndpointHost
     /\ ~TemplateAffectingChanged(op.oldSpec.VSphereDatacenter,
            op.newSpec.VSphereDatacenter, op.oldVmc, op.newVmc))
        => ~op.needsNewControlPlaneTemplate

\* the users of the machine config changed, and nothing a template depends on
C6_Witness ==
    /\ IsDiffer
    /\ op.oldSpec.KubernetesVersion = op.newSpec.KubernetesVersion
    /\ op.oldSpec.BundleNumber = op.newSpec.BundleNumber
    /\ op.oldSpec.EndpointHost = op.newSpec.EndpointHost
    /\ ~TemplateAffectingChanged(op.oldSpec.VSphereDatacenter,
           op.newSpec.VSphereDatacenter, op.oldVmc, op.newVmc)
    /\ op.oldVmc.Users # op.newVmc.Users
    /\ ~op.needsNewControlPlaneTemplate

\* C7: when the Kubernetes version or the bundle number differs,
\* NeedsNewControlPlaneTemplate, NeedsNewWorkloadTemplate and
\* NeedsNewEtcdTemplate are all TRUE, whatever the other fields are.
C7_VersionOrBundleForcesAll ==
    (/\ IsDiffer
     /\ \/ op.oldSpec.KubernetesVersion # op.newSpec.KubernetesVersion
        \/ op.oldSpec.BundleNumber # op.newSpec.BundleNumber)
        => /\ op.needsNewControlPlaneTemplate
           /\ op.needsNewWorkloadTemplate
           /\ op.needsNewEtcdTemplate

\* only the bundle number changed
C7_Witness ==
    /\ IsDiffer
    /\ op.oldSpec.BundleNumber # op.newSpec.BundleNumber
    /\ op.oldSpec.KubernetesVersion = op.newSpec.KubernetesVersion
    /\ op.oldVmc = op.newVmc
    /\ op.needsNewEtcdTemplate
    /\ op.needsNewWorkloadTemplate
    /\ op.needsNewControlPlaneTemplate

\* C8: AnyImmutableFieldChanged is TRUE exactly when one of NumCPUs,
\* MemoryMiB, DiskGiB, Datastore, Folder, ResourcePool, Template of the
\* machine config or Network, Thumbprint of the datacenter config differs.
C8_AnyImmutableFieldChangedIff ==
    IsDiffer =>
        (op.anyImmutableFieldChanged <=>
            TemplateAffectingChanged(op.oldSpec.VSphereDatacenter,
                op.newSpec.VSphereDatacenter, op.oldVmc, op.newVmc))

\* the pair differs in DiskGiB and in a field outside the set
C8_Witness ==
    /\ IsDiffer
    /\ op.oldVmc.DiskGiB # op.newVmc.DiskGiB
    /\ op.oldVmc.Annotations # op.newVmc.Annotations
    /\ \A f \in TemplateAffecting \ {"DiskGiB"} : op.oldVmc[f] = op.newVmc[f]
    /\ op.anyImmutableFieldChanged

\* C9: NeedsNewKubeadmConfigTemplate is TRUE exactly when the taints or the
\* labels of the worker node group, or the users of its machine config,
\* differ between the old and the new side.
C9_KubeadmConfigTemplateIff ==
    IsDiffer =>
        (op.needsNewKubeadmConfigTemplate <=>
            \/ op.oldWng.Taints # op.newWng.Taints
            \/ op.oldWng.Labels # op.newWng.Labels
            \/ op.oldVmc.Users # op.newVmc.Users)

\* only the users changed; and, in another run, only the number of CPUs
C9_Witness ==
    /\ IsDiffer
    /\ op.oldWng = op.newWng
    /\ \/ op.oldVmc.Users # op.newVmc.Users /\ op.needsNewKubeadmConfigTemplate
       \/ /\ op.oldVmc.Users = op.newVmc.Users
          /\ op.oldVmc.NumCPUs # op.newVmc.NumCPUs
          /\ ~op.needsNewKubeadmConfigTemplate

\* every read of the cluster succeeded, every machine config the new spec
\* refers to is in the spec, and those the previous spec referred to kept
\* storagePolicyName and osFamily
EarlierChecksPass ==
    /\ \A i \in 1..Len(op.calls) : op.calls[i].ok
    /\ LET refs == machineRefSliceToMap(MachineConfigRefs(op.newSpec)) IN
       \A r \in refs :
          /\ r \in DOMAIN op.newSpec.VSphereMachineConfigs
          /\ r \in machineRefSliceToMap(MachineConfigRefs(LiveCluster)) =>
                /\ op.newSpec.VSphereMachineConfigs[r].StoragePolicyName =
                      LiveMachineConfigs[r].StoragePolicyName
                /\ op.newSpec.VSphereMachineConfigs[r].OSFamily =
                      LiveMachineConfigs[r].OSFamily

Differs(f) == op.newSpec.VSphereDatacenter[f] # LiveDatacenter[f]
Names(f) ==
    /\ op.err.prev = LiveDatacenter[f]
    /\ op.err.new = op.newSpec.VSphereDatacenter[f]

\* C10 as stated: a Server (datacenter name, network) that differs from the
\* live cluster's makes ValidateNewSpec return an error with the previous and
\* the new server (datacenter name, network).
C10_AsStated ==
    IsValidate =>
        /\ Differs("Server") =>
              op.err.msg = "spec.server is immutable" /\ Names("Server")
        /\ Differs("Datacenter") =>
              op.err.msg = "spec.datacenter is immutable" /\ Names("Datacenter")
        /\ Differs("Network") =>
              op.err.msg = "spec.network is immutable" /\ Names("Network")

\* C10, amended: a Server, datacenter name or network that differs from the
\* live cluster's makes ValidateNewSpec return an error.  When no earlier
\* step failed (the cluster reads, the resolution and the immutability of the
\* machine configs), the error is that of the first of server, datacenter
\* name and network that differs, with its previous and its new value.
C10_DatacenterImmutable ==
    IsValidate =>
        /\ (Differs("Server") \/ Differs("Datacenter") \/ Differs("Network"))
              => op.err # NoErr
        /\ (EarlierChecksPass /\ Differs("Server")) =>
              op.err.msg = "spec.server is immutable" /\ Names("Server")
        /\ (EarlierChecksPass /\ ~Differs("Server") /\ Differs("Datacenter")) =>
              op.err.msg = "spec.datacenter is immutable" /\ Names("Datacenter")
        /\ (/\ EarlierChecksPass
            /\ ~Differs("Server")
            /\ ~Differs("Datacenter")
            /\ Differs("Network")) =>
              op.err.msg = "spec.network is immutable" /\ Names("Network")

C10_Witness ==
    /\ IsValidate
    /\ Differs("Server")
    /\ Differs("Network")
    /\ op.err.msg = "spec.server is immutable"
    /\ op.err.prev # op.err.new

\* the machine configs both the new spec and the cluster's applied spec refer to
SharedRefs ==
    machineRefSliceToMap(MachineConfigRefs(op.newSpec))
        \cap machineRefSliceToMap(MachineConfigRefs(LiveCluster))
ImmutableChanged(r, f) ==
    /\ r \in DOMAIN op.newSpec.VSphereMachineConfigs
    /\ op.newSpec.VSphereMachineConfigs[r][f] # LiveMachineConfigs[r][f]
ImmutableMsg(f) ==
    IF f = "StoragePolicyName" THEN "spec.storagePolicyName is immutable"
    ELSE "spec.osFamily is immutable"

\* C11: ValidateNewSpec returns an error when a machine config that both the
\* new spec and the cluster's applied spec refer to changed storagePolicyName
\* or osFamily with respect to the machine config stored in the cluster (the
\* immutability error of such a config, with the stored and the new value,
\* when every read succeeds and every reference resolves); a machine config
\* the applied spec does not refer to is never looked up in the cluster.
C11_MachineConfigImmutable ==
    IsValidate =>
        /\ (\E r \in SharedRefs, f \in {"StoragePolicyName", "OSFamily"} :
                ImmutableChanged(r, f))
              => /\ op.err # NoErr
                 /\ (/\ \A i \in 1..Len(op.calls) : op.calls[i].ok
                     /\ \A r \in machineRefSliceToMap(MachineConfigRefs(op.newSpec)) :
                           r \in DOMAIN op.newSpec.VSphereMachineConfigs)
                       => \E r \in SharedRefs, f \in {"StoragePolicyName", "OSFamily"} :
                             /\ ImmutableChanged(r, f)
                             /\ op.err = Err(ImmutableMsg(f), LiveMachineConfigs[r][f],
                                             op.newSpec.VSphereMachineConfigs[r][f])
        /\ \A i \in 1..Len(op.calls) :
              op.calls[i].what = "GetEksaVSphereMachineConfig"
                  => op.calls[i].arg \in SharedRefs

\* osFamily of a shared machine config changed; a machine config new to the
\* cluster, whose storagePolicyName is not the default, is referred to as well
C11_Witness ==
    /\ IsValidate
    /\ \E r \in SharedRefs : ImmutableChanged(r, "OSFamily")
    /\ op.err.msg = "spec.osFamily is immutable"
    /\ \E r \in machineRefSliceToMap(MachineConfigRefs(op.newSpec)) \ SharedRefs :
          op.newSpec.VSphereMachineConfigs[r].StoragePolicyName # 0

CredentialsDiffer ==
    \/ LiveSecret.username # op.env.Username
    \/ LiveSecret.password # op.env.Password
CredentialsError ==
    Err("the VSphere credentials derived from VSPHERE_PASSWORD and VSPHERE_USERNAME are immutable", 0, 0)
DatacenterUnchanged ==
    ~Differs("Server") /\ ~Differs("Datacenter") /\ ~Differs("Network")
MachineConfigsUnchanged ==
    \A r \in SharedRefs, f \in {"StoragePolicyName", "OSFamily"} : ~ImmutableChanged(r, f)

\* C12 as stated: stored credentials that differ from the environment make
\* ValidateNewSpec fail with the error naming VSPHERE_PASSWORD and
\* VSPHERE_USERNAME; equal credentials and passing immutability checks make
\* it return nil.
C12_AsStated ==
    IsValidate =>
        /\ CredentialsDiffer => op.err = CredentialsError
        /\ (~CredentialsDiffer /\ DatacenterUnchanged /\ MachineConfigsUnchanged)
              => op.err = NoErr

\* C12, amended: stored credentials that differ from the environment make
\* ValidateNewSpec fail; the error names VSPHERE_PASSWORD and
\* VSPHERE_USERNAME when every read of the cluster (the secret's included)
\* succeeds, every referenced machine config is in the spec and the
\* immutability checks pass.  Under those conditions and with equal
\* credentials it returns nil.
C12_CredentialsImmutable ==
    IsValidate =>
        /\ CredentialsDiffer => op.err # NoErr
        /\ (CredentialsDiffer /\ EarlierChecksPass /\ DatacenterUnchanged)
              => op.err = CredentialsError
        /\ (~CredentialsDiffer /\ EarlierChecksPass /\ DatacenterUnchanged)
              => op.err = NoErr

\* only the username differs
C12_Witness ==
    /\ IsValidate
    /\ LiveSecret.username # op.env.Username
    /\ LiveSecret.password = op.env.Password
    /\ op.err = CredentialsError

IsCreateSetup == op.name = "SetupAndValidateCreateCluster"
IsUpgradeSetup == op.name = "SetupAndValidateUpgradeCluster"
IsDeleteSetup == op.name = "SetupAndValidateDeleteCluster"
AllCallsOk == \A i \in 1..Len(op.calls) : op.calls[i].ok

\* a machine config of the spec, or its datacenter config, has the name of a
\* resource of the target namespace
NameTaken ==
    \E n \in DOMAIN op.spec.VSphereMachineConfigs \cup {op.spec.VSphereDatacenter.Name} :
        n \in op.setup.existing

\* C13 as stated: every SetupAndValidateCreateCluster returns an error when a
\* VSphereMachineConfig with the name of a machine config of the spec, or a
\* VSphereDatacenterConfig with the name of its datacenter config, exists.
C13_AsStated ==
    (IsCreateSetup /\ NameTaken) => op.err # NoErr

\* C13, amended: SetupAndValidateCreateCluster of a managed cluster returns
\* an error when a VSphereMachineConfig with the name of a machine config of
\* the spec, or a VSphereDatacenterConfig with the name of its datacenter
\* config, exists: the "already exists" error when every step before the
\* finding succeeds.
C13_ManagedCreateRejectsTakenNames ==
    (IsCreateSetup /\ op.setup.managed /\ NameTaken) =>
        /\ op.err # NoErr
        /\ AllCallsOk =>
              \/ /\ op.err.msg = "VSphereMachineConfig already exists"
                 /\ op.calls[Len(op.calls)].what = "SearchVsphereMachineConfig"
                 /\ op.calls[Len(op.calls)].arg \in
                       DOMAIN op.spec.VSphereMachineConfigs \cap op.setup.existing
              \/ /\ op.err.msg = "VSphereDatacenter already exists"
                 /\ op.calls[Len(op.calls)].what = "SearchVsphereDatacenterConfig"
                 /\ DOMAIN op.spec.VSphereMachineConfigs \cap op.setup.existing = {}

\* only the datacenter config's name is taken
C13_Witness ==
    /\ IsCreateSetup
    /\ op.setup.managed
    /\ op.setup.existing = {op.spec.VSphereDatacenter.Name}
    /\ op.err.msg = "VSphereDatacenter already exists"

\* C14: SetupAndValidateUpgradeCluster runs the privilege check of the
\* service account, as SetupAndValidateCreateCluster does, and returns an
\* error when the account lacks privileges.
C14_UpgradeChecksPrivileges ==
    IsUpgradeSetup =>
        /\ User \in op.setup.unprivileged => op.err # NoErr
        /\ op.err = NoErr =>
              \E i \in 1..Len(op.calls) : op.calls[i].what = "validateUserPrivs"

\* C15: when every step of SetupAndValidateUpgradeCluster succeeds, it
\* rejects exactly when a machine config that the new spec refers to (control
\* plane, external etcd, worker node group) and the previous spec refers to
\* nowhere is in the cluster already.
C15_UniquenessOfNewReferences ==
    (IsUpgradeSetup /\ AllCallsOk) =>
        (op.err # NoErr <=>
            \E r \in machineRefSliceToMap(MachineConfigRefs(op.newSpec))
                        \ machineRefSliceToMap(MachineConfigRefs(LiveCluster)) :
                r \in DOMAIN LiveMachineConfigs \cup op.setup.existing)

\* C16: SetupAndValidateDeleteCluster takes two steps, the validation of the
\* upgrade rollout strategy and the setup of the environment variables,
\* neither of them a call of the infrastructure client or of the
\* cluster-state client, and returns nil exactly when both succeed.
C16_DeleteOnlySetsUp ==
    IsDeleteSetup =>
        /\ \A i \in 1..Len(op.calls) : op.calls[i].ev = "local"
        /\ Len(op.calls) \in 1..2
        /\ op.calls[1].what = "validateUpgradeRolloutStrategy"
        /\ Len(op.calls) = 2 <=> op.calls[1].ok
        /\ Len(op.calls) = 2 => op.calls[2].what = "SetupEnvVars"
        /\ op.err = NoErr <=> (Len(op.calls) = 2 /\ AllCallsOk)

\* the setup of the environment variables fails
C16_Witness ==
    /\ IsDeleteSetup
    /\ Len(op.calls) = 2
    /\ ~op.calls[2].ok
    /\ op.err # NoErr

IsUpgradeNeeded == op.name = "UpgradeNeeded"

\* a machine config of the new spec has no counterpart among the machine
\* configs of the cluster, or a spec that differs from its counterpart's
MachineConfigNewOrChanged ==
    \E n \in DOMAIN op.newSpec.VSphereMachineConfigs :
        \/ n \notin DOMAIN LiveMachineConfigs
        \/ MachineConfigSpec(op.newSpec.VSphereMachineConfigs[n])
              # MachineConfigSpec(LiveMachineConfigs[n])

\* C17: when its reads succeed UpgradeNeeded returns true if an image digest
\* (driver, syncer, manager, kube-vip) differs between the new and the
\* current bundle, or the new datacenter config's spec differs from the
\* stored one, or a machine config of the new spec differs from, or has no
\* counterpart among, the machine configs of the cluster; false with a nil
\* error is returned only when none of these holds.
C17_UpgradeNeededWhenSomethingDiffers ==
    (IsUpgradeNeeded /\ AllCallsOk) =>
        ((\/ \E d \in ImageDigests : op.newSpec[d] # op.currentSpec[d]
          \/ DatacenterConfigSpec(op.newSpec.VSphereDatacenter)
                # DatacenterConfigSpec(LiveDatacenter)
          \/ MachineConfigNewOrChanged)
            => op.result)

IsChangeDiff == op.name = "ChangeDiff"

\* C18: ChangeDiff returns nil exactly when the version of the vSphere
\* component is the same in the current and in the new spec; otherwise the
\* record names the vSphere provider, the current spec's version as
\* OldVersion and the new spec's version as NewVersion.
C18_ChangeDiff ==
    IsChangeDiff =>
        /\ op.diff = NoDiff
              <=> op.currentSpec.VSphereVersion = op.newSpec.VSphereVersion
        /\ op.diff # NoDiff =>
              /\ op.diff.ComponentName = "vsphere"
              /\ op.diff.OldVersion = op.currentSpec.VSphereVersion
              /\ op.diff.NewVersion = op.newSpec.VSphereVersion

\* a diff whose versions differ
C18_Witness ==
    /\ IsChangeDiff
    /\ op.diff # NoDiff
    /\ op.diff.OldVersion # op.diff.NewVersion
    /\ op.newSpec.BundleNumber = op.currentSpec.BundleNumber

\* C19: a GenerateCAPISpecForCreate that follows one with the same cluster
\* spec returns the same control plane manifest and the same workers
\* manifest.
C19_CreateIdempotent ==
    (/\ IsCreate
     /\ op.err = NoErr
     /\ op.previous # NoPrevious
     /\ op.previous.spec = op.spec)
        => /\ op.controlPlaneSpec = op.previous.controlPlaneSpec
           /\ op.workersSpec = op.previous.workersSpec

\* C20: GenerateCAPISpecForCreate calls neither the cluster-state client nor
\* the infrastructure client, and the names in the manifests it returns are
\* minted by this call: one control plane name, one etcd name and, for every
\* worker node group of the spec and under its name, one machine template
\* name and one kubeadm config template name.
C20_CreateMintsEveryName ==
    IsCreate =>
        /\ \A i \in 1..Len(op.calls) : op.calls[i].ev \in {"mint", "render"}
        /\ op.err = NoErr =>
              /\ op.controlPlaneSpec.controlPlaneTemplateName =
                    TemplateName("cp", "", op.t)
              /\ op.controlPlaneSpec.etcdTemplateName = TemplateName("etcd", "", op.t)
              /\ DOMAIN op.workersSpec.workloadTemplateNames = GroupNames(op.spec)
              /\ DOMAIN op.workersSpec.kubeadmconfigTemplateNames = GroupNames(op.spec)
              /\ \A g \in GroupNames(op.spec) :
                    /\ op.workersSpec.workloadTemplateNames[g] =
                          TemplateName("worker", g, op.t)
                    /\ op.workersSpec.kubeadmconfigTemplateNames[g] =
                          TemplateName("kubeadmconfig", g, op.t)
              /\ \A k \in {"cp", "etcd"} :
                    Cardinality({i \in 1..Len(op.calls) :
                        op.calls[i].ev = "mint" /\ op.calls[i].what = k}) = 1
              /\ \A k \in {"worker", "kubeadmconfig"}, g \in GroupNames(op.spec) :
                    Cardinality({i \in 1..Len(op.calls) :
                        /\ op.calls[i].ev = "mint"
                        /\ op.calls[i].what = k
                        /\ op.calls[i].arg = g}) = 1

\* a spec with a third worker node group, created at a later time
C20_Witness ==
    /\ IsCreate
    /\ op.err = NoErr
    /\ op.t > 1
    /\ "md-2" \in GroupNames(op.spec)
    /\ op.workersSpec.kubeadmconfigTemplateNames["md-2"] =
          TemplateName("kubeadmconfig", "md-2", op.t)
\* the steps of the operation that are client calls or renders
ClientCallOrRender(i) == op.calls[i].ev \in {"call", "render"}

\* C21: when GenerateCAPISpecForUpgrade or GenerateCAPISpecForCreate returns
\* an error, both manifests it returns are nil; and the first client call or
\* render that fails is the last client call or render of the operation (and
\* the operation then returns an error).
C21_ErrorLeavesNothing ==
    (IsUpgrade \/ IsCreate) =>
        /\ op.err # NoErr =>
              op.controlPlaneSpec = NilBytes /\ op.workersSpec = NilBytes
        /\ \A i \in 1..Len(op.calls) :
              ~op.calls[i].ok =>
                 /\ op.err # NoErr
                 /\ \A j \in (i + 1)..Len(op.calls) : ~ClientCallOrRender(j)

\* the workers manifest fails to render after the control plane manifest was
\* rendered: nil is returned for both
C21_Witness ==
    /\ IsUpgrade
    /\ op.err # NoErr
    /\ Len(op.calls) > 1
    /\ op.calls[Len(op.calls)].what = "GenerateCAPISpecWorkers"
    /\ ~op.calls[Len(op.calls)].ok
    /\ op.calls[Len(op.calls) - 1].what = "GenerateCAPISpecControlPlane"
    /\ op.calls[Len(op.calls) - 1].ok
    /\ op.controlPlaneSpec = NilBytes
    /\ op.workersSpec = NilBytes

\* the i-th step reads a Cluster API resource that is not in the live cluster
ReadsAbsent(i) ==
    LET c == op.calls[i] IN
    \/ c.what = "GetKubeadmControlPlane" /\ "KubeadmControlPlane" \in op.missing
    \/ c.what = "GetEtcdadmCluster" /\ "EtcdadmCluster" \in op.missing
    \/ c.what = "GetMachineDeployment" /\ c.arg[2] \in op.missing

\* C22: in GenerateCAPISpecForUpgrade an entity (control plane, worker node
\* group, external etcd) whose previous Cluster API resource is not in the
\* live cluster gets a newly minted template name, and the operation does not
\* fail because of the absence: when nothing else fails it returns nil.
C22_AbsentResourceNeedsNew ==
    (/\ IsUpgrade
     /\ op.err # Panic
     /\ \A i \in 1..Len(op.calls) : op.calls[i].ok \/ ReadsAbsent(i)) =>
        /\ op.err = NoErr
        /\ "KubeadmControlPlane" \in op.missing =>
              op.controlPlaneSpec.controlPlaneTemplateName = Minted("cp", "")
        /\ ("EtcdadmCluster" \in op.missing /\ op.newSpec.EtcdRef # NoEtcd) =>
              op.controlPlaneSpec.etcdTemplateName = Minted("etcd", "")
        /\ \A g \in GroupNames(op.newSpec) \cap op.missing :
              /\ op.workersSpec.workloadTemplateNames[g] = Minted("worker", g)
              /\ op.workersSpec.kubeadmconfigTemplateNames[g] =
                     Minted("kubeadmconfig", g)

\* a machine-group reference of the spec (control plane, external etcd,
\* worker node group) has no entry in the spec's machine-config mapping
MissingMachineConfig(spec) ==
    \E r \in machineRefSliceToMap(MachineConfigRefs(spec)) :
        r \notin DOMAIN spec.VSphereMachineConfigs

\* C23: when a machine-group reference of the new spec has no entry in the
\* spec's machine-config mapping, ValidateNewSpec and
\* GenerateCAPISpecForUpgrade each return an error, without a panic and
\* without a write to the live cluster.
C23_MissingMachineConfigIsFatal ==
    ((IsValidate \/ IsUpgrade) /\ MissingMachineConfig(op.newSpec)) =>
        /\ op.err # NoErr
        /\ op.err # Panic
        /\ \A i \in 1..Len(op.calls) : op.calls[i].what # "UpdateAnnotation"

\* the calls of the cluster-state client that only read
Reads ==
    {"GetEksaCluster", "GetEksaVSphereDatacenterConfig",
     "GetEksaVSphereMachineConfig", "GetKubeadmControlPlane",
     "GetMachineDeployment", "GetEtcdadmCluster", "GetSecretFromNamespace"}

\* the steps of the operation that call UpdateAnnotation
Annotations == {i \in 1..Len(op.calls) : op.calls[i].what = "UpdateAnnotation"}

\* C28: the only write of GenerateCAPISpecForUpgrade to the live cluster is
\* UpdateAnnotation of the EtcdadmCluster "<clusterName>-etcd": every other
\* client call reads, UpdateAnnotation is called at most once, and only when
\* the new spec has external etcd and NeedsNewEtcdTemplate is true.
C28_OnlyWriteIsTheAnnotation ==
    IsUpgrade =>
        /\ \A i \in 1..Len(op.calls) :
              op.calls[i].ev = "call" =>
                 \/ op.calls[i].what \in Reads
                 \/ /\ op.calls[i].what = "UpdateAnnotation"
                    /\ op.calls[i].arg = <<op.newSpec.Name, "etcd">>
        /\ Cardinality(Annotations) <= 1
        /\ Annotations # {} => EtcdNeedsNew(op.newSpec)

\* the EtcdadmCluster is annotated once, among reads, and the upgrade succeeds
C28_Witness ==
    /\ IsUpgrade
    /\ op.err = NoErr
    /\ Cardinality(Annotations) = 1
    /\ \E i \in 1..Len(op.calls) : op.calls[i].what = "GetMachineDeployment"
    /\ annotated

\* the operation wrote the upgrade-in-progress annotation
WroteAnnotation == \E i \in Annotations : op.calls[i].ok

\* the last step of the operation is a render that failed
RenderFailed ==
    /\ Len(op.calls) > 0
    /\ op.calls[Len(op.calls)].ev = "render"
    /\ ~op.calls[Len(op.calls)].ok

\* C29 as stated: when GenerateCAPISpecForUpgrade returns an error, it has
\* not written the upgrade-in-progress annotation.
C29_AsStated ==
    (IsUpgrade /\ op.err # NoErr) => ~WroteAnnotation

\* C29: when GenerateCAPISpecForUpgrade returns an error from a step up to
\* and including UpdateAnnotation, it has not written the upgrade-in-progress
\* annotation: an error leaves the annotation written only when it is the
\* error of a render of the manifests.
C29_ErrorBeforeRenderNotAnnotated ==
    (IsUpgrade /\ op.err # NoErr /\ ~RenderFailed) => ~WroteAnnotation

\* UpdateAnnotation itself fails: the error is returned, nothing is written
C29_Witness ==
    /\ IsUpgrade
    /\ op.err # NoErr
    /\ op.calls[Len(op.calls)].what = "UpdateAnnotation"
    /\ ~op.calls[Len(op.calls)].ok
    /\ ~WroteAnnotation
    /\ ~annotated

IsEnvMap == op.name = "EnvMap"

\* a required variable of the environment is unset or empty
RequiredEnvMissing(env) ==
    \E k \in DOMAIN env : ~env[k].set \/ env[k].value = ""

\* C24: EnvMap returns an error exactly when one of VSPHERE_USERNAME,
\* VSPHERE_PASSWORD and EXP_CLUSTER_RESOURCE_SET is unset or empty; otherwise
\* it returns nil and a map of exactly these three keys, each bound to its
\* value in the environment.  It calls no client.
C24_EnvMap ==
    IsEnvMap =>
        /\ op.err # NoErr <=> RequiredEnvMissing(op.env)
        /\ op.err = NoErr =>
              /\ DOMAIN op.envMap =
                    {vSphereUsernameKey, vSpherePasswordKey, expClusterResourceSetKey}
              /\ \A k \in DOMAIN op.envMap : op.envMap[k] = op.env[k].value
        /\ op.calls = << >>

\* only the username is missing from the environment, set to the empty string
C24_Witness ==
    /\ IsEnvMap
    /\ op.env[vSphereUsernameKey] = Set("")
    /\ op.env[vSpherePasswordKey] = Set("a")
    /\ op.env[expClusterResourceSetKey] = Set("b")
    /\ op.err # NoErr

\* C25: a client call of ValidateNewSpec or GenerateCAPISpecForUpgrade that
\* fails in transport (GetEksaCluster, which reads a resource that exists) is
\* made again by the operation: one failure of the call, the next attempt
\* succeeding, does not end the operation with an error.
C25_TransportFailureIsRetried ==
    (IsValidate \/ IsUpgrade) =>
        \A i \in 1..Len(op.calls) :
            (op.calls[i].what = "GetEksaCluster" /\ ~op.calls[i].ok) =>
                /\ i < Len(op.calls)
                /\ op.calls[i + 1].what = "GetEksaCluster"
                /\ op.calls[i + 1].ok
                /\ op.err # Err("GetEksaCluster", 0, 0)

PrivilegeChecks ==
    {"validateUserPrivs", "validateCPUserPrivs", "validateCSIUserPrivs"}
IsPrivilegeCheck(c) == c.what \in PrivilegeChecks

\* the privilege checks the operation ran, in order
PrivilegeLog == SelectSeq(op.calls, IsPrivilegeCheck)

\* every step before the privilege checks passed
ReachedPrivilegeChecks ==
    \/ op.err = NoErr
    \/ /\ Len(op.calls) > 0
       /\ IsPrivilegeCheck(op.calls[Len(op.calls)])
       /\ ~op.calls[Len(op.calls)].ok

Check(what, user) == [what |-> what, arg |-> user]

\* The general account is checked, then the control plane account when
\* checkCP, then the CSI account when checkCSI; a check fails at least when
\* its account lacks privileges; a check that fails is the last and its error
\* is returned; when none fails all are run and nil is returned.
PrivilegeChecksAre(checkCP, checkCSI) ==
    LET expected ==
            <<Check("validateUserPrivs", User)>>
            \o (IF checkCP
                THEN <<Check("validateCPUserPrivs", op.setup.cpUser)>> ELSE << >>)
            \o (IF checkCSI
                THEN <<Check("validateCSIUserPrivs", op.setup.csiUser)>> ELSE << >>)
        log == PrivilegeLog
    IN
    /\ Len(log) \in 1..Len(expected)
    /\ \A i \in 1..Len(log) :
          /\ Check(log[i].what, log[i].arg) = expected[i]
          /\ log[i].arg \in op.setup.unprivileged => ~log[i].ok
          /\ ~log[i].ok => i = Len(log) /\ op.err = Err(log[i].what, 0, 0)
    /\ (\A i \in 1..Len(log) : log[i].ok) =>
          Len(log) = Len(expected) /\ op.err = NoErr

\* C26 as stated: the control plane (CSI) account is checked exactly when
\* its username is configured and differs from the username of every other
\* configured account.
C26_AsStated ==
    (IsCreateSetup /\ ReachedPrivilegeChecks) =>
        PrivilegeChecksAre(
            op.setup.cpUser # "" /\ op.setup.cpUser \notin {User, op.setup.csiUser},
            op.setup.csiUser # "" /\ op.setup.csiUser \notin {User, op.setup.cpUser})

\* C26: when SetupAndValidateCreateCluster reaches its privilege checks, the
\* general account is checked; the control plane (CSI) account is checked
\* exactly when its username is configured and differs from the general
\* account's username (a control plane and a CSI account of the same name
\* are both checked); a check that returns an error ends the setup with that
\* error and no later check is run.
C26_PrivilegeChecks ==
    (IsCreateSetup /\ ReachedPrivilegeChecks) =>
        PrivilegeChecksAre(
            op.setup.cpUser # "" /\ op.setup.cpUser # User,
            op.setup.csiUser # "" /\ op.setup.csiUser # User)

\* the control plane account and the CSI account have the same username,
\* which is not the general account's: both checks are run
C26_Witness ==
    /\ IsCreateSetup
    /\ op.setup.cpUser # ""
    /\ op.setup.cpUser = op.setup.csiUser
    /\ op.setup.cpUser # User
    /\ Len(PrivilegeLog) = 3
    /\ op.err = NoErr

\* the position of a step in the log of the operation, 0 when it was not run
StepOf(what) ==
    IF \E i \in 1..Len(op.calls) : op.calls[i].what = what
    THEN CHOOSE i \in 1..Len(op.calls) : op.calls[i].what = what
    ELSE 0

\* step a was run, passed, and came before step b
Precedes(a, b) ==
    /\ StepOf(a) > 0
    /\ StepOf(a) < StepOf(b)
    /\ op.calls[StepOf(a)].ok

\* C27: in SetupAndValidateCreateCluster and SetupAndValidateUpgradeCluster
\* the defaults of the datacenter config are set before it is validated
\* (Validate, ValidateVCenterConfig), the defaults of the machine configs
\* before ValidateClusterMachineConfigs, the datacenter stage is complete
\* before the machine-config stage starts, every step is run at most once,
\* and a step that returns an error is the last step of the operation, which
\* returns an error.
C27_DefaultsThenValidation ==
    (IsCreateSetup \/ IsUpgradeSetup) =>
        /\ StepOf("VSphereDatacenter.Validate") > 0 =>
              Precedes("SetDefaultsForDatacenterConfig", "VSphereDatacenter.Validate")
        /\ StepOf("ValidateVCenterConfig") > 0 =>
              /\ Precedes("SetDefaultsForDatacenterConfig", "ValidateVCenterConfig")
              /\ Precedes("VSphereDatacenter.Validate", "ValidateVCenterConfig")
        /\ StepOf("setDefaultsForMachineConfig") > 0 =>
              Precedes("ValidateVCenterConfig", "setDefaultsForMachineConfig")
        /\ StepOf("ValidateClusterMachineConfigs") > 0 =>
              Precedes("setDefaultsForMachineConfig", "ValidateClusterMachineConfigs")
        /\ \A i, j \in 1..Len(op.calls) :
              (op.calls[i].ev # "call" /\ op.calls[i].what = op.calls[j].what) => i = j
        /\ \A i \in 1..Len(op.calls) :
              ~op.calls[i].ok => i = Len(op.calls) /\ op.err # NoErr
        /\ op.err = NoErr => StepOf("ValidateClusterMachineConfigs") > 0

\* ValidateVCenterConfig fails in an upgrade: the defaults of the datacenter
\* config were set, the machine-config stage is never started
C27_Witness ==
    /\ IsUpgradeSetup
    /\ op.err # NoErr
    /\ StepOf("ValidateVCenterConfig") = Len(op.calls)
    /\ ~op.calls[Len(op.calls)].ok
    /\ Precedes("SetDefaultsForDatacenterConfig", "ValidateVCenterConfig")
    /\ StepOf("setDefaultsForMachineConfig") = 0

IsMachineConfigRead(c) == c.what = "GetEksaVSphereMachineConfig"
IsShared(r) == r \in SharedRefs

\* the references of the new spec, in order, that ValidateNewSpec cannot pass:
\* the machine config is not in the spec, or it is one the applied spec refers
\* to and storagePolicyName or osFamily changed
FailingRefs ==
    LET refs == MachineConfigRefs(op.newSpec) IN
    {k \in 1..Len(refs) :
        \/ refs[k] \notin DOMAIN op.newSpec.VSphereMachineConfigs
        \/ /\ IsShared(refs[k])
           /\ \E f \in {"StoragePolicyName", "OSFamily"} : ImmutableChanged(refs[k], f)}

\* the error ValidateNewSpec returns for a reference that cannot pass
MachineConfigError(r) ==
    IF r \notin DOMAIN op.newSpec.VSphereMachineConfigs
    THEN Err("cannot find machine config", 0, 0)
    ELSE LET f == IF ImmutableChanged(r, "StoragePolicyName")
                  THEN "StoragePolicyName" ELSE "OSFamily"
         IN Err(ImmutableMsg(f), LiveMachineConfigs[r][f],
                op.newSpec.VSphereMachineConfigs[r][f])

\* C30: ValidateNewSpec only reads from the cluster.  It reads the cluster
\* and its datacenter config, then resolves and checks the machine configs in
\* the order of the new spec's machine-config references (reading from the
\* cluster those the applied spec refers to), then compares server,
\* datacenter and network, and last reads the credentials secret.  It returns
\* the error of the first check that fails and reads nothing after a failure:
\* the secret is read only when every check before it passed.
C30_ValidateNewSpecOrder ==
    IsValidate =>
        LET refs == MachineConfigRefs(op.newSpec)
            n == Len(op.calls)
            reads == SelectSeq(op.calls, IsMachineConfigRead)
            shared == SelectSeq(refs, IsShared)
            allOk == \A i \in 1..n : op.calls[i].ok
            first == CHOOSE k \in FailingRefs : \A j \in FailingRefs : k <= j
        IN
        /\ \A i \in 1..n : op.calls[i].ev = "call" /\ op.calls[i].what \in Reads
        /\ \A i \in 1..n : ~op.calls[i].ok => i = n /\ op.err # NoErr
        /\ op.calls[1].what = "GetEksaCluster"
        /\ n >= 2 => op.calls[2].what = "GetEksaVSphereDatacenterConfig"
        /\ \A i \in 3..n :
              \/ IsMachineConfigRead(op.calls[i])
              \/ i = n /\ op.calls[i].what = "GetSecretFromNamespace"
        /\ Len(reads) <= Len(shared)
        /\ \A i \in 1..Len(reads) : reads[i].arg = shared[i]
        /\ op.calls[n].what = "GetSecretFromNamespace" =>
              /\ FailingRefs = {}
              /\ DatacenterUnchanged
              /\ Len(reads) = Len(shared)
        /\ (allOk /\ FailingRefs # {}) =>
              /\ op.err = MachineConfigError(refs[first])
              /\ \A i \in 1..Len(reads) :
                    \E k \in 1..first : refs[k] = reads[i].arg
        /\ (allOk /\ FailingRefs = {} /\ ~DatacenterUnchanged) =>
              /\ op.err.msg =
                    IF Differs("Server") THEN "spec.server is immutable"
                    ELSE IF Differs("Datacenter") THEN "spec.datacenter is immutable"
                    ELSE "spec.network is immutable"
              /\ Len(reads) = Len(shared)
        /\ (allOk /\ FailingRefs = {} /\ DatacenterUnchanged) =>
              /\ op.calls[n].what = "GetSecretFromNamespace"
              /\ op.err = IF CredentialsDiffer THEN CredentialsError ELSE NoErr

\* two references cannot pass, the control plane's machine config (osFamily
\* changed) and a later one: the error is the control plane's, and nothing
\* is read from the cluster after the control plane's machine config
C30_Witness ==
    /\ IsValidate
    /\ Cardinality(FailingRefs) = 2
    /\ 1 \in FailingRefs
    /\ op.err.msg = "spec.osFamily is immutable"
    /\ Len(op.calls) = 3
    /\ IsMachineConfigRead(op.calls[3])
    /\ op.calls[3].ok

====
